---------------------------- MODULE Spec2Model ----------------------------
(***************************************************************************)
(* A model of reflog-ql: the RQL plain-text parser (parse.ts), its schema  *)
(* validator, and the cursor-context / suggestion engine (autocomplete.ts).*)
(*                                                                         *)
(* Text is a sequence of one-character strings.  Indices are 0-based as in *)
(* the source; CharAt and Slice translate them to TLA+ sequences.          *)
(***************************************************************************)
EXTENDS Integers, Sequences, FiniteSets, TLC

VARIABLES
  text,     \* the text in the filter bar
  typed,    \* what was typed to produce it (the pieces, in order)
  passed,   \* <<>> when no schema is passed, <<s>> when schema s is passed
  caret,    \* the cursor position handed to getContext
  pc,       \* "typing", then the last API call made on the text
  result,   \* outcome of parsePlainText(text, schema)
  valid,    \* outcome of isValidPlainText(text, schema)
  ctxOut,   \* outcome of getContext(text, caret)
  sugOut    \* outcome of getSuggestions / getSuggestionsAtCursor

vars == <<text, typed, passed, caret, pc, result, valid, ctxOut, sugOut>>

-----------------------------------------------------------------------------
(* JavaScript string primitives                                            *)

Min(a, b) == IF a < b THEN a ELSE b
Max(a, b) == IF a > b THEN a ELSE b

\* What s[i] gives out of range.
Undefined == "undefined"

\* s[i]
CharAt(s, i) == IF i >= 0 /\ i < Len(s) THEN s[i + 1] ELSE Undefined

\* s.slice(a, b) for 0 <= a
Slice(s, a, b) == SubSeq(s, Min(a, Len(s)) + 1, Min(b, Len(s)))

\* s.slice(a)
SliceFrom(s, a) == Slice(s, a, Len(s))

\* /\s/
WhiteSpace == {" ", "\t", "\n", "\r"}
IsWs(c) == c \in WhiteSpace

\* /\d/
Digits == <<"0", "1", "2", "3", "4", "5", "6", "7", "8", "9">>
IsDigit(c) == \E k \in 1..10 : Digits[k] = c
DigitVal(c) == (CHOOSE k \in 1..10 : Digits[k] = c) - 1

UpperCase == <<"A", "B", "C", "D", "E", "F", "G", "H", "I", "J", "K", "L", "M",
               "N", "O", "P", "Q", "R", "S", "T", "U", "V", "W", "X", "Y", "Z">>
LowerCase == <<"a", "b", "c", "d", "e", "f", "g", "h", "i", "j", "k", "l", "m",
               "n", "o", "p", "q", "r", "s", "t", "u", "v", "w", "x", "y", "z">>
UpperSet == {UpperCase[k] : k \in 1..26}
LowerOf == [c \in UpperSet |-> LowerCase[CHOOSE k \in 1..26 : UpperCase[k] = c]]
ToLowerChar(c) == IF c \in UpperSet THEN LowerOf[c] ELSE c

\* s.toLowerCase()
ToLower(s) == [k \in 1..Len(s) |-> ToLowerChar(s[k])]

RECURSIVE SkipWs(_, _)
\* while (i < s.length && /\s/.test(s[i])) i++
SkipWs(s, i) == IF i < Len(s) /\ IsWs(s[i + 1]) THEN SkipWs(s, i + 1) ELSE i

RECURSIVE SkipNonWs(_, _)
\* while (i < s.length && !/\s/.test(s[i])) i++
SkipNonWs(s, i) == IF i < Len(s) /\ ~IsWs(s[i + 1]) THEN SkipNonWs(s, i + 1) ELSE i

RECURSIVE TrimEnd(_)
\* s.trimEnd()
TrimEnd(s) == IF Len(s) > 0 /\ IsWs(s[Len(s)]) THEN TrimEnd(SubSeq(s, 1, Len(s) - 1)) ELSE s

\* s.trimStart()
TrimStart(s) == SliceFrom(s, SkipWs(s, 0))

\* s.trim()
Trim(s) == TrimEnd(TrimStart(s))

\* s.indexOf(c), -1 when absent
IndexOf(s, c) ==
  IF \E k \in 1..Len(s) : s[k] = c
  THEN (CHOOSE k \in 1..Len(s) : s[k] = c /\ \A j \in 1..(k - 1) : s[j] # c) - 1
  ELSE -1

\* s.lastIndexOf(c), -1 when absent
LastIndexOf(s, c) ==
  IF \E k \in 1..Len(s) : s[k] = c
  THEN (CHOOSE k \in 1..Len(s) : s[k] = c /\ \A j \in (k + 1)..Len(s) : s[j] # c) - 1
  ELSE -1

\* s.slice(i, i + p.length) === p
HasAt(s, i, p) == Slice(s, i, i + Len(p)) = p

\* s.startsWith(p), s.endsWith(c)
StartsWith(s, p) == HasAt(s, 0, p)
EndsWithChar(s, c) == Len(s) > 0 /\ s[Len(s)] = c

RECURSIVE SplitOn(_, _)
\* s.split(c) for a one-character separator
SplitOn(s, c) ==
  LET k == IndexOf(s, c) IN
  IF k = -1 THEN <<s>> ELSE <<Slice(s, 0, k)>> \o SplitOn(SliceFrom(s, k + 1), c)

RECURSIVE SplitWs(_)
\* t.split(/\s+/) for a trimmed, non-empty t
SplitWs(t) ==
  LET e == SkipNonWs(t, 0) IN
  IF e >= Len(t) THEN <<t>>
  ELSE <<Slice(t, 0, e)>> \o SplitWs(SliceFrom(t, SkipWs(t, e)))

RECURSIVE Join(_, _)
\* parts.join(sep)
Join(parts, sep) ==
  IF Len(parts) = 0 THEN <<>>
  ELSE IF Len(parts) = 1 THEN parts[1]
  ELSE parts[1] \o sep \o Join(Tail(parts), sep)

RECURSIVE Dedup(_)
\* [...new Set(list)]: first occurrences, in order
Dedup(list) ==
  IF Len(list) = 0 THEN <<>>
  ELSE LET init == Dedup(SubSeq(list, 1, Len(list) - 1))
           last == list[Len(list)]
       IN IF \E k \in 1..Len(init) : init[k] = last THEN init ELSE Append(init, last)

-----------------------------------------------------------------------------
(* The five top-level keys, as text                                        *)

K_entity  == <<"e", "n", "t", "i", "t", "y">>
K_limit   == <<"l", "i", "m", "i", "t">>
K_order   == <<"o", "r", "d", "e", "r">>
K_include == <<"i", "n", "c", "l", "u", "d", "e">>
K_where   == <<"w", "h", "e", "r", "e">>
Colon     == <<":">>
Quote     == "\""
BackSlash == "\\"

\* Outcomes of a call: a value, or a thrown error with its message (a list of
\* message pieces whose concatenation is the message text).
Ok(v)          == [kind |-> "ok", value |-> v, message |-> <<>>]
ParseError(m)  == [kind |-> "ParseError", value |-> <<>>, message |-> m]
TypeError(m)   == [kind |-> "TypeError", value |-> <<>>, message |-> m]
NoCall         == [kind |-> "none", value |-> <<>>, message |-> <<>>]


TopKeys == {K_entity, K_limit, K_order, K_include, K_where}

-----------------------------------------------------------------------------
(* parse.ts: splitTopLevel                                                 *)

RECURSIVE ScanQuote(_, _)
\* The scan of a quoted string from the index after its opening quote: a
\* backslash skips two characters, the closing quote ends it.
ScanQuote(str, i) ==
  IF i >= Len(str) THEN [found |-> FALSE, i |-> i]
  ELSE IF str[i + 1] = BackSlash THEN ScanQuote(str, i + 2)
  ELSE IF str[i + 1] = Quote THEN [found |-> TRUE, i |-> i + 1]
  ELSE ScanQuote(str, i + 1)

\* The index of the first match at or after `from` of
\* /\s(entity|limit|order|include|where):/, or s.length when there is none.
\* parse.ts uses the flag g (case-sensitive), autocomplete.ts the flags gi.
NextKeyIndex(s, from, ignoreCase) ==
  LET t  == IF ignoreCase THEN ToLower(s) ELSE s
      js == {j \in from..(Len(s) - 1) :
               IsWs(s[j + 1]) /\ \E K \in TopKeys : HasAt(t, j + 1, K \o Colon)}
  IN IF js = {} THEN Len(s) ELSE CHOOSE j \in js : \A k \in js : j <= k

RECURSIVE WhereBlockScan(_, _, _)
\* The depth-counting scan of a where:( block from the index after its "(".
WhereBlockScan(str, i, depth) ==
  IF ~(i < Len(str) /\ depth > 0) THEN [unclosed |-> FALSE, i |-> i, depth |-> depth]
  ELSE IF str[i + 1] = BackSlash THEN WhereBlockScan(str, i + 2, depth)
  ELSE IF str[i + 1] = Quote THEN
    LET q == ScanQuote(str, i + 1) IN
    IF ~q.found THEN [unclosed |-> TRUE, i |-> q.i, depth |-> depth]
    ELSE WhereBlockScan(str, q.i, depth)
  ELSE IF str[i + 1] = "(" THEN WhereBlockScan(str, i + 1, depth + 1)
  ELSE IF str[i + 1] = ")" THEN WhereBlockScan(str, i + 1, depth - 1)
  ELSE WhereBlockScan(str, i + 1, depth)

\* The end of an order: clause that starts at i: the next whitespace that is
\* followed by a key and a colon.
OrderClauseEnd(str, i) == NextKeyIndex(str, i + 6, FALSE)

RECURSIVE SplitLoop(_, _, _)
SplitLoop(str, i0, clauses) ==
  LET i == SkipWs(str, i0) IN
  IF i >= Len(str) THEN Ok(clauses)
  ELSE IF str[i + 1] = Quote THEN
    LET q == ScanQuote(str, i + 1) IN
    IF ~q.found THEN ParseError(<<"Unclosed quoted string">>)
    ELSE SplitLoop(str, q.i, Append(clauses, Slice(str, i, q.i)))
  ELSE IF HasAt(str, i, K_order \o Colon) THEN
    LET end == OrderClauseEnd(str, i) IN
    SplitLoop(str, end, Append(clauses, Slice(str, i, end)))
  ELSE IF HasAt(str, i, K_where \o Colon) /\ CharAt(str, i + 6) = "(" THEN
    LET w == WhereBlockScan(str, i + 7, 1) IN
    IF w.unclosed THEN ParseError(<<"Unclosed quoted string in where clause">>)
    ELSE IF w.depth # 0 THEN ParseError(<<"Unbalanced parentheses in where clause">>)
    ELSE SplitLoop(str, w.i, Append(clauses, Slice(str, i, w.i)))
  ELSE
    LET e == SkipNonWs(str, i) IN
    SplitLoop(str, e, Append(clauses, Slice(str, i, e)))

splitTopLevel(str) == SplitLoop(str, 0, <<>>)

-----------------------------------------------------------------------------
(* parse.ts: unwrapWhere                                                   *)

RECURSIVE UnwrapScan(_, _, _)
\* The for loop of unwrapWhere: it counts every parenthesis of s, quoted or
\* not.
UnwrapScan(s, i, depth0) ==
  IF i >= Len(s) THEN Ok(depth0)
  ELSE
    LET depth == IF s[i + 1] = "(" THEN depth0 + 1
                 ELSE IF s[i + 1] = ")" THEN depth0 - 1 ELSE depth0
    IN IF depth < 0 THEN ParseError(<<"Unbalanced parentheses in where clause">>)
       ELSE IF depth = 0 /\ i < Len(s) - 1
         THEN ParseError(<<"Unbalanced or invalid where expression">>)
       ELSE UnwrapScan(s, i + 1, depth)

unwrapWhere(value) ==
  LET s == Trim(value) IN
  IF StartsWith(s, <<"(">>) THEN
    LET r == UnwrapScan(s, 0, 0) IN
    IF r.kind # "ok" THEN r
    ELSE IF r.value # 0 THEN ParseError(<<"Unbalanced parentheses in where clause">>)
    ELSE IF ~EndsWithChar(s, ")") THEN ParseError(<<"Unbalanced parentheses in where clause">>)
    ELSE Ok(Trim(Slice(s, 1, Len(s) - 1)))
  ELSE Ok(s)

-----------------------------------------------------------------------------
(* parse.ts: tokenizeWhere                                                 *)

\* const OPS = ["!=", "<=", ">=", "=", "<", ">"], tried in this order
OPS == << <<"!", "=">>, <<"<", "=">>, <<">", "=">>, <<"=">>, <<"<">>, <<">">> >>

\* The first operator of `ops` that the text has at i, or <<>>.
OpAt(s, i, ops) ==
  LET ks == {k \in 1..Len(ops) : HasAt(s, i, ops[k])} IN
  IF ks = {} THEN <<>> ELSE ops[CHOOSE k \in ks : \A j \in ks : k <= j]

\* /[\s()"=<>!]/: the characters that end an unquoted word
WordStop == WhiteSpace \cup {"(", ")", Quote, "=", "<", ">", "!"}

RECURSIVE SkipWord(_, _)
\* while (i < s.length && !/[\s()"=<>!]/.test(s[i])) i++
SkipWord(s, i) == IF i < Len(s) /\ s[i + 1] \notin WordStop THEN SkipWord(s, i + 1) ELSE i

W_and   == <<"a", "n", "d">>
W_or    == <<"o", "r">>
W_true  == <<"t", "r", "u", "e">>
W_false == <<"f", "a", "l", "s", "e">>

RECURSIVE AllDigits(_)
AllDigits(s) == Len(s) = 0 \/ (IsDigit(s[1]) /\ AllDigits(Tail(s)))

\* /^\d+$/
IsDigitString(s) == Len(s) > 0 /\ AllDigits(s)

\* /^-?\d+(\.\d+)?$/
IsNumeric(raw) ==
  LET body == IF StartsWith(raw, <<"-">>) THEN SliceFrom(raw, 1) ELSE raw
      dot  == IndexOf(body, ".")
  IN IF dot = -1 THEN IsDigitString(body)
     ELSE IsDigitString(Slice(body, 0, dot)) /\ IsDigitString(SliceFrom(body, dot + 1))

RECURSIVE StripLeadingZeros(_)
StripLeadingZeros(d) ==
  IF Len(d) > 1 /\ d[1] = "0" THEN StripLeadingZeros(Tail(d)) ELSE d

RECURSIVE StripTrailingZeros(_)
StripTrailingZeros(d) ==
  IF Len(d) > 0 /\ d[Len(d)] = "0" THEN StripTrailingZeros(SubSeq(d, 1, Len(d) - 1)) ELSE d

\* The number that parseInt(raw, 10) / parseFloat(raw) gives for a raw text
\* matching IsNumeric, written canonically: two raw texts give the same
\* JavaScript number exactly when they give the same NumberOf.
NumberOf(raw) ==
  LET neg  == StartsWith(raw, <<"-">>)
      body == IF neg THEN SliceFrom(raw, 1) ELSE raw
      dot  == IndexOf(body, ".")
      int  == StripLeadingZeros(IF dot = -1 THEN body ELSE Slice(body, 0, dot))
      frac == IF dot = -1 THEN <<>> ELSE StripTrailingZeros(SliceFrom(body, dot + 1))
  IN (IF neg THEN <<"-">> ELSE <<>>) \o int \o (IF frac = <<>> THEN <<>> ELSE <<".">> \o frac)

\* WhereToken
Tok(type, value) == [type |-> type, value |-> value]

\* As WordToken, had true and false been recognised in lower case only.
WordTokenLowerCase(raw) ==
  IF ToLower(raw) \in {W_and, W_or} THEN Tok("keyword", ToLower(raw))
  ELSE IF raw = W_true THEN Tok("boolean", W_true)
  ELSE IF raw = W_false THEN Tok("boolean", W_false)
  ELSE IF IsNumeric(raw) THEN Tok("number", NumberOf(raw))
  ELSE Tok("ident", raw)

\* The token of an unquoted word.
WordToken(raw) ==
  IF ToLower(raw) \in {W_and, W_or} THEN Tok("keyword", ToLower(raw))
  ELSE IF ToLower(raw) = W_true THEN Tok("boolean", W_true)
  ELSE IF ToLower(raw) = W_false THEN Tok("boolean", W_false)
  ELSE IF IsNumeric(raw) THEN Tok("number", NumberOf(raw))
  ELSE Tok("ident", raw)

RECURSIVE ScanString(_, _, _)
\* The quoted-string loop of tokenizeWhere from the index after the opening
\* quote: after a backslash the next character is taken as it is (s[i] out of
\* range is undefined, which is appended as text).
ScanString(s, i, val) ==
  IF i >= Len(s) THEN [found |-> FALSE, i |-> i, val |-> val]
  ELSE IF s[i + 1] = BackSlash THEN ScanString(s, i + 2, Append(val, CharAt(s, i + 1)))
  ELSE IF s[i + 1] = Quote THEN [found |-> TRUE, i |-> i + 1, val |-> val]
  ELSE ScanString(s, i + 1, Append(val, s[i + 1]))

RECURSIVE TokenizeLoop(_, _, _)
TokenizeLoop(s, i0, tokens) ==
  LET i == SkipWs(s, i0) IN
  IF i >= Len(s) THEN Ok(tokens)
  ELSE IF s[i + 1] = "(" \/ s[i + 1] = ")" THEN
    TokenizeLoop(s, i + 1, Append(tokens, Tok("paren", <<s[i + 1]>>)))
  ELSE IF s[i + 1] = Quote THEN
    LET q == ScanString(s, i + 1, <<>>) IN
    IF ~q.found THEN ParseError(<<"Unclosed quoted string in where clause">>)
    ELSE TokenizeLoop(s, q.i, Append(tokens, Tok("string", q.val)))
  ELSE IF OpAt(s, i, OPS) # <<>> THEN
    TokenizeLoop(s, i + Len(OpAt(s, i, OPS)), Append(tokens, Tok("op", OpAt(s, i, OPS))))
  ELSE
    LET e   == SkipWord(s, i)
        raw == Slice(s, i, e)
    IN IF raw = <<>> THEN ParseError(<<"Unexpected character in where clause">>)
       ELSE TokenizeLoop(s, e, Append(tokens, WordToken(raw)))

tokenizeWhere(inner) == TokenizeLoop(inner, 0, <<>>)

-----------------------------------------------------------------------------
(* parse.ts: parseWhere (recursive descent over the tokens)                *)

\* RQLCondition: a comparison, or an and / or node with children.  A value
\* carries its JavaScript type.
Value(type, v) == [type |-> type, v |-> v]
NoValue        == Value("none", <<>>)
Comparison(field, op, value) ==
  [node |-> "cmp", field |-> field, op |-> op, value |-> value, children |-> <<>>]
Logical(which, children) ==
  [node |-> which, field |-> <<>>, op |-> <<>>, value |-> NoValue, children |-> children]

\* A parse function's return: a condition and the new pos, null and the pos,
\* or a thrown error.
Parsed(cond, pos) == [kind |-> "ok", cond |-> cond, pos |-> pos, message |-> <<>>]
Null(pos)         == [kind |-> "null", cond |-> <<>>, pos |-> pos, message |-> <<>>]
Thrown(kind, m)   == [kind |-> kind, cond |-> <<>>, pos |-> -1, message |-> m]
IsThrown(r)       == r.kind \notin {"ok", "null"}

IsKeyword(t, w) == t.type = "keyword" /\ t.value = w
IsParen(t, c)   == t.type = "paren" /\ t.value = <<c>>

\* As Spread, had nested nodes of the same kind not been flattened.
SpreadNothing(cond, which) == <<cond>>

\* t.and ? t.and : [t]    and    left.or ? left.or : [left]
Spread(cond, which) == IF cond.node = which THEN cond.children ELSE <<cond>>

RECURSIVE SpreadAll(_, _)
\* for (const t of terms) flattened.push(...(t.and ? t.and : [t]))
SpreadAll(terms, which) ==
  IF Len(terms) = 0 THEN <<>>
  ELSE Spread(terms[1], which) \o SpreadAll(Tail(terms), which)

\* The value a token gives a comparison: an ident its raw text (a string), a
\* string, number or boolean token its typed value.
TokenValue(t) == IF t.type = "ident" THEN Value("string", t.value) ELSE Value(t.type, t.value)

parseComparison(tokens, pos) ==
  IF pos >= Len(tokens) THEN Null(pos)
  ELSE
    LET fieldTok == tokens[pos + 1] IN
    IF fieldTok.type \notin {"ident", "string"} THEN Null(pos)
    ELSE
      LET hasOp == pos + 1 < Len(tokens) /\ tokens[pos + 2].type = "op"
          op    == IF hasOp THEN tokens[pos + 2].value ELSE <<"=">>
          vpos  == IF hasOp THEN pos + 2 ELSE pos + 1
      IN IF vpos >= Len(tokens)
           THEN Thrown("ParseError", <<"Incomplete comparison in where clause">>)
         ELSE IF tokens[vpos + 1].type \notin {"ident", "string", "number", "boolean"}
           THEN Thrown("ParseError", <<"Invalid value in where comparison">>)
         ELSE Parsed(Comparison(fieldTok.value, op, TokenValue(tokens[vpos + 1])), vpos + 1)

\* The result of parseAnd once its terms are collected.
AndOf(terms, pos) ==
  IF Len(terms) = 1 THEN Parsed(terms[1], pos)
  ELSE Parsed(Logical("and", SpreadAll(terms, "and")), pos)

\* The result of parseOr for a left and a right side.
OrOf(left, right, pos) == Parsed(Logical("or", Spread(left, "or") \o Spread(right, "or")), pos)

RECURSIVE parseOr(_, _)
RECURSIVE parseAnd(_, _)
RECURSIVE AndLoop(_, _, _)
RECURSIVE parsePrimary(_, _)

\* As parseOr, had its right side been parsed by parseAnd.
parseOrOnce(tokens, pos) ==
  LET Or(left) ==
        IF IsThrown(left) THEN left
        ELSE IF left.pos >= Len(tokens) THEN left
        ELSE IF IsKeyword(tokens[left.pos + 1], W_or) THEN
          IF left.kind = "null"
            THEN Thrown("ParseError", <<"Invalid where: OR with no left side">>)
          ELSE
            LET With(right) ==
                  IF IsThrown(right) THEN right
                  ELSE IF right.kind = "null"
                    THEN Thrown("ParseError", <<"Invalid where: OR with no right side">>)
                  ELSE OrOf(left.cond, right.cond, right.pos)
            IN With(parseAnd(tokens, left.pos + 1))
        ELSE left
  IN Or(parseAnd(tokens, pos))

parseOr(tokens, pos) ==
  LET Or(left) ==
        IF IsThrown(left) THEN left
        ELSE IF left.pos >= Len(tokens) THEN left
        ELSE IF IsKeyword(tokens[left.pos + 1], W_or) THEN
          IF left.kind = "null"
            THEN Thrown("ParseError", <<"Invalid where: OR with no left side">>)
          ELSE
            LET With(right) ==
                  IF IsThrown(right) THEN right
                  ELSE IF right.kind = "null"
                    THEN Thrown("ParseError", <<"Invalid where: OR with no right side">>)
                  ELSE OrOf(left.cond, right.cond, right.pos)
            IN With(parseOr(tokens, left.pos + 1))
        ELSE left
  IN Or(parseAnd(tokens, pos))

parseAnd(tokens, pos) ==
  LET First(term) == IF term.kind # "ok" THEN term ELSE AndLoop(tokens, term.pos, <<term.cond>>)
  IN First(parsePrimary(tokens, pos))

\* The while loop of parseAnd.
AndLoop(tokens, pos, terms) ==
  IF pos >= Len(tokens) THEN AndOf(terms, pos)
  ELSE IF IsKeyword(tokens[pos + 1], W_or) THEN AndOf(terms, pos)
  ELSE
    \* after an AND keyword a term must follow; without it the loop ends
    \* where no term follows
    LET explicit == IsKeyword(tokens[pos + 1], W_and)
        Push(term) ==
          IF IsThrown(term) THEN term
          ELSE IF term.kind = "null" THEN
            IF explicit THEN Thrown("ParseError", <<"Invalid where: AND with no right side">>)
            ELSE AndOf(terms, pos)
          ELSE AndLoop(tokens, term.pos, Append(terms, term.cond))
    IN Push(parsePrimary(tokens, IF explicit THEN pos + 1 ELSE pos))

parsePrimary(tokens, pos) ==
  IF pos >= Len(tokens) THEN Null(pos)
  ELSE IF IsParen(tokens[pos + 1], "(") THEN
    LET Group(innerCond) ==
          IF IsThrown(innerCond) THEN innerCond
          ELSE IF innerCond.pos >= Len(tokens) \/ ~IsParen(tokens[innerCond.pos + 1], ")")
            THEN Thrown("ParseError", <<"Missing closing parenthesis">>)
          ELSE IF innerCond.kind = "null"
            THEN Thrown("ParseError", <<"Empty parenthetical expression">>)
          ELSE Parsed(innerCond.cond, innerCond.pos + 1)
    IN Group(parseOr(tokens, pos + 1))
  ELSE parseComparison(tokens, pos)

parseWhere(inner) ==
  LET Parse(toks) ==
        IF toks.kind # "ok" THEN toks
        ELSE IF Len(toks.value) = 0 THEN ParseError(<<"Empty where clause">>)
        ELSE
          LET Result(r) ==
                IF IsThrown(r) THEN [kind |-> r.kind, value |-> <<>>, message |-> r.message]
                ELSE IF r.pos < Len(toks.value)
                  THEN ParseError(<<"Unbalanced or invalid where expression">>)
                ELSE IF r.kind = "null" THEN ParseError(<<"Empty or invalid where expression">>)
                ELSE Ok(r.cond)
          IN Result(parseOr(toks.value, 0))
  IN Parse(tokenizeWhere(inner))

-----------------------------------------------------------------------------
(* parse.ts: validateAgainstSchema                                         *)

\* Schema values.  An optional part is <<>> when absent and <<x>> when
\* present: relations?: string[], fields?: Record<string, FieldDef>,
\* values?: string[].  A Record is the list of its entries in insertion order.
FieldDef(name, values)          == [name |-> name, values |-> values]
EntityDef(name, relations, fields) == [name |-> name, relations |-> relations, fields |-> fields]
Schema(entities)                == [entities |-> entities]

\* RQLQuery: each field is <<>> when absent and <<x>> when present.
EmptyQuery == [entity |-> <<>>, limit |-> <<>>, order |-> <<>>, include |-> <<>>, where |-> <<>>]

Names(list) == [k \in 1..Len(list) |-> list[k].name]
Has(list, x) == \E k \in 1..Len(list) : list[k] = x

RECURSIVE Filter(_, _)
\* The members of list that are not in allowed, in order.
Filter(list, allowed) ==
  IF Len(list) = 0 THEN <<>>
  ELSE (IF Has(allowed, list[1]) THEN <<>> ELSE <<list[1]>>) \o Filter(Tail(list), allowed)

Comma == <<",", " ">>

\* Object.keys(x): a TypeError when x is undefined.
ObjectKeys(optRecord) ==
  IF optRecord = <<>> THEN TypeError(<<"Cannot convert undefined or null to object">>)
  ELSE Ok(Names(optRecord[1]))

RECURSIVE collectFields(_, _)
RECURSIVE CollectAll(_, _)
\* The fieldErrors that collectFields pushes for cond, in order.
collectFields(cond, allowedFields) ==
  IF cond.node = "cmp"
  THEN IF Has(allowedFields, cond.field) THEN <<>> ELSE <<cond.field>>
  ELSE CollectAll(cond.children, allowedFields)

CollectAll(conds, allowedFields) ==
  IF Len(conds) = 0 THEN <<>>
  ELSE collectFields(conds[1], allowedFields) \o CollectAll(Tail(conds), allowedFields)

\* As UnknownFields, had collectFields stopped at the first unknown field.
UnknownFieldsFirstOnly(cond, allowedFields) ==
  LET all == collectFields(cond, allowedFields) IN
  IF Len(all) = 0 THEN <<>> ELSE <<all[1]>>

\* const unknown = [...new Set(fieldErrors)]
UnknownFields(cond, allowedFields) == Dedup(collectFields(cond, allowedFields))

UnknownFieldsMessage(entity, unknown, allowedFields) ==
  <<"Unknown field(s) for entity \"">> \o entity \o <<"\": ">> \o Join(unknown, Comma)
    \o <<". Known fields: ">> \o Join(allowedFields, Comma)

\* As WhereIsValidated, without the test that the entity declares fields.
WhereIsValidatedAlways(rql, entityDef) == rql.where # <<>>

\* if (rql.where && entityDef.fields)
WhereIsValidated(rql, entityDef) == rql.where # <<>> /\ entityDef.fields # <<>>

\* if (rql.include && Object.keys(rql.include).length > 0)
IncludeIsValidated(rql) == rql.include # <<>> /\ Len(rql.include[1]) > 0

\* if (!schema?.entities?.length) return
SchemaIsEmpty(schema) == Len(schema.entities) = 0

\* schema.entities.find((e) => e.name === rql.entity): <<>> or <<entityDef>>
FindEntity(schema, rql) ==
  LET ks == {k \in 1..Len(schema.entities) :
               rql.entity # <<>> /\ schema.entities[k].name = rql.entity[1]}
  IN IF ks = {} THEN <<>> ELSE <<schema.entities[CHOOSE k \in ks : \A j \in ks : k <= j]>>

\* The "Validate fields in where clause" block.
ValidateWhere(rql, entityDef) ==
  IF ~WhereIsValidated(rql, entityDef) THEN Ok(rql)
  ELSE
    LET keys == ObjectKeys(entityDef.fields) IN
    IF keys.kind # "ok" THEN keys
    ELSE
      LET allowedFields == Dedup(keys.value)
          unknown       == UnknownFields(rql.where[1], allowedFields)
      IN IF Len(unknown) > 0
           THEN ParseError(UnknownFieldsMessage(rql.entity[1], unknown, allowedFields))
         ELSE Ok(rql)

\* As ValidateInclude, had the loop looked at the first relation only.
ValidateIncludeFirstOnly(rql, entityDef) ==
  IF ~IncludeIsValidated(rql) THEN Ok(rql)
  ELSE
    LET allowed == Dedup(IF entityDef.relations = <<>> THEN <<>> ELSE entityDef.relations[1])
        rel     == rql.include[1][1]
    IN IF ~Has(allowed, rel)
         THEN ParseError(<<"Unknown relation \"">> \o rel \o <<"\" for entity \"">>
                \o rql.entity[1] \o <<"\". Known relations: ">> \o Join(allowed, Comma))
       ELSE Ok(rql)

\* The "Validate relations" block.
ValidateInclude(rql, entityDef) ==
  IF ~IncludeIsValidated(rql) THEN Ok(rql)
  ELSE
    LET allowed == Dedup(IF entityDef.relations = <<>> THEN <<>> ELSE entityDef.relations[1])
        bad     == Filter(rql.include[1], allowed)
    IN IF Len(bad) > 0
         THEN ParseError(<<"Unknown relation \"">> \o bad[1] \o <<"\" for entity \"">>
                \o rql.entity[1] \o <<"\". Known relations: ">> \o Join(allowed, Comma))
       ELSE Ok(rql)

\* As validateAgainstSchema, had it deleted the relations from rql.include
\* once it had checked them.
validateAgainstSchemaClearingInclude(rql, schema) ==
  IF SchemaIsEmpty(schema) THEN Ok(rql)
  ELSE
    LET entityNames == Dedup(Names(schema.entities)) IN
    IF rql.entity # <<>> /\ ~Has(entityNames, rql.entity[1])
      THEN ParseError(<<"Unknown entity \"">> \o rql.entity[1]
             \o <<"\". Known entities: ">> \o Join(entityNames, Comma))
    ELSE
      LET found == FindEntity(schema, rql) IN
      IF found = <<>> THEN Ok(rql)
      ELSE
        LET inc == ValidateInclude(rql, found[1]) IN
        IF inc.kind # "ok" THEN inc
        ELSE ValidateWhere([rql EXCEPT !.include = <<>>], found[1])

\* As validateAgainstSchema, had it also looked the order fields up among the
\* entity's fields.
validateAgainstSchemaWithOrder(rql, schema) ==
  IF SchemaIsEmpty(schema) THEN Ok(rql)
  ELSE
    LET entityNames == Dedup(Names(schema.entities)) IN
    IF rql.entity # <<>> /\ ~Has(entityNames, rql.entity[1])
      THEN ParseError(<<"Unknown entity \"">> \o rql.entity[1]
             \o <<"\". Known entities: ">> \o Join(entityNames, Comma))
    ELSE
      LET found == FindEntity(schema, rql) IN
      IF found = <<>> THEN Ok(rql)
      ELSE
        LET inc == ValidateInclude(rql, found[1])
            known == IF found[1].fields = <<>> THEN <<>> ELSE Names(found[1].fields[1])
        IN
        IF inc.kind # "ok" THEN inc
        ELSE IF rql.order # <<>> /\ \E k \in 1..Len(rql.order[1]) : ~Has(known, rql.order[1][k].field)
          THEN ParseError(<<"Unknown order field">>)
        ELSE ValidateWhere(rql, found[1])

\* Returns rql (the function returns nothing and leaves rql as it is) or
\* throws.
validateAgainstSchema(rql, schema) ==
  IF SchemaIsEmpty(schema) THEN Ok(rql)
  ELSE
    LET entityNames == Dedup(Names(schema.entities)) IN
    IF rql.entity # <<>> /\ ~Has(entityNames, rql.entity[1])
      THEN ParseError(<<"Unknown entity \"">> \o rql.entity[1]
             \o <<"\". Known entities: ">> \o Join(entityNames, Comma))
    ELSE
      LET found == FindEntity(schema, rql) IN
      IF found = <<>> THEN Ok(rql)
      ELSE
        LET inc == ValidateInclude(rql, found[1]) IN
        IF inc.kind # "ok" THEN inc ELSE ValidateWhere(rql, found[1])

-----------------------------------------------------------------------------
(* parse.ts: parsePlainText, isValidPlainText                              *)

RECURSIVE DigitsValue(_)
\* The number a string of digits writes.
DigitsValue(d) ==
  IF Len(d) = 0 THEN 0 ELSE 10 * DigitsValue(SubSeq(d, 1, Len(d) - 1)) + DigitVal(d[Len(d)])

\* parseInt(value, 10) for a trimmed value: an optional sign, then the longest
\* run of digits; NaN when that run is empty.
ParseInt(value) ==
  LET signed == Len(value) > 0 /\ value[1] \in {"-", "+"}
      body   == IF signed THEN Tail(value) ELSE value
      run    == Slice(body, 0, CHOOSE e \in 0..Len(body) :
                    /\ AllDigits(Slice(body, 0, e))
                    /\ (e = Len(body) \/ ~IsDigit(body[e + 1])))
  IN [nan |-> run = <<>>,
      n   |-> IF signed /\ value[1] = "-" THEN 0 - DigitsValue(run) ELSE DigitsValue(run)]

W_asc  == <<"a", "s", "c">>
W_desc == <<"d", "e", "s", "c">>

OrderTerm(field, dir) == [field |-> field, dir |-> dir]

RECURSIVE OrderTerms(_, _)
\* for (const part of value.split(",")) ... terms.push({ field, dir })
OrderTerms(parts, terms) ==
  IF Len(parts) = 0 THEN Ok(terms)
  ELSE
    LET t == Trim(parts[1]) IN
    IF t = <<>> THEN ParseError(<<"Empty term in order list">>)
    ELSE
      LET tokens == SplitWs(t)
          field  == tokens[1]
      IN IF ToLower(field) \in {W_asc, W_desc}
           THEN ParseError(<<"Invalid order term \"">> \o field
                  \o <<"\": order must be a field name (e.g. order:name or order:created_at desc), not a direction alone.">>)
         ELSE IF Len(tokens) >= 2 /\ ToLower(tokens[2]) \notin {W_asc, W_desc}
           THEN ParseError(<<"Invalid order direction \"">> \o tokens[2] \o <<"\". Use asc or desc.">>)
         ELSE OrderTerms(Tail(parts),
                Append(terms, OrderTerm(field,
                  IF Len(tokens) >= 2 /\ ToLower(tokens[2]) = W_desc THEN "desc" ELSE "asc")))

RECURSIVE IncludeKeys(_, _)
\* for (const rel of value.split(",")) ... out.include[r] = true
IncludeKeys(parts, keys) ==
  IF Len(parts) = 0 THEN Ok(keys)
  ELSE
    LET r == Trim(parts[1]) IN
    IF r = <<>> THEN ParseError(<<"Empty relation name in include list">>)
    ELSE IncludeKeys(Tail(parts), IF Has(keys, r) THEN keys ELSE Append(keys, r))

Duplicate(key) == ParseError(<<"Duplicate top-level key: ", key>>)
EmptyValue(key) == ParseError(<<key, " value must be non-empty">>)

\* As LimitOf, without the test of the value against /^\d+$/.
LimitOfParsed(out, value) ==
  LET p == ParseInt(value) IN
  IF p.nan THEN ParseError(<<"limit must be a valid integer">>)
  ELSE IF p.n < 0 THEN ParseError(<<"limit must be non-negative">>)
  ELSE Ok([out EXCEPT !.limit = <<p.n>>])

\* The limit branch, after the duplicate and the empty checks.
LimitOf(out, value) ==
  LET p == ParseInt(value) IN
  IF p.nan THEN ParseError(<<"limit must be a valid integer">>)
  ELSE IF p.n < 0 THEN ParseError(<<"limit must be non-negative">>)
  ELSE IF ~IsDigitString(Trim(value))
    THEN ParseError(<<"limit must be an integer without decimals">>)
  ELSE Ok([out EXCEPT !.limit = <<p.n>>])

\* "key" in out
In(key, out) == out[key] # <<>>

\* The body of the for loop of parsePlainText for one clause: the query
\* with the clause's field set, or the error thrown.
Clause(out, clause) ==
  LET colon == IndexOf(clause, ":")
      Interpret(key, value) ==
        IF key = K_entity THEN
          IF In("entity", out) THEN Duplicate("entity")
          ELSE IF value = <<>> THEN EmptyValue("entity")
          ELSE Ok([out EXCEPT !.entity = <<value>>])
        ELSE IF key = K_limit THEN
          IF In("limit", out) THEN Duplicate("limit")
          ELSE IF value = <<>> THEN EmptyValue("limit")
          ELSE LimitOf(out, value)
        ELSE IF key = K_order THEN
          IF In("order", out) THEN Duplicate("order")
          ELSE IF value = <<>> THEN EmptyValue("order")
          ELSE LET Set(terms) ==
                     IF terms.kind # "ok" THEN terms
                     ELSE Ok([out EXCEPT !.order = <<terms.value>>])
               IN Set(OrderTerms(SplitOn(value, ","), <<>>))
        ELSE IF key = K_include THEN
          IF In("include", out) THEN Duplicate("include")
          ELSE IF value = <<>> THEN EmptyValue("include")
          ELSE LET Set(keys) ==
                     IF keys.kind # "ok" THEN keys
                     ELSE Ok([out EXCEPT !.include = <<keys.value>>])
               IN Set(IncludeKeys(SplitOn(value, ","), <<>>))
        ELSE IF key = K_where THEN
          IF In("where", out) THEN Duplicate("where")
          ELSE IF value = <<>> THEN EmptyValue("where")
          ELSE LET Set(cond) ==
                     IF cond.kind # "ok" THEN cond
                     ELSE Ok([out EXCEPT !.where = <<cond.value>>])
                   Unwrapped(inner) ==
                     IF inner.kind # "ok" THEN inner ELSE Set(parseWhere(inner.value))
               IN Unwrapped(unwrapWhere(value))
        ELSE ParseError(<<"Unknown top-level key: \"">> \o key
               \o <<"\". Valid keys: entity, limit, order, include, where">>)
  IN IF colon = -1
       THEN ParseError(<<"Invalid clause \"">> \o clause
              \o <<"\": expected key:value format (e.g., entity:users). Valid keys: entity, limit, order, include, where">>)
     ELSE Interpret(ToLower(Trim(Slice(clause, 0, colon))), Trim(SliceFrom(clause, colon + 1)))

RECURSIVE Clauses(_, _)
\* for (const clause of clauses) ...
Clauses(out, clauses) ==
  IF Len(clauses) = 0 THEN Ok(out)
  ELSE LET Then(r) == IF r.kind # "ok" THEN r ELSE Clauses(r.value, Tail(clauses))
       IN Then(Clause(out, clauses[1]))

\* parsePlainText(input, schema): schema is <<>> when the argument is omitted.
parsePlainText(input, schema) ==
  LET Validated(out) ==
        IF out.kind # "ok" THEN out
        ELSE IF schema # <<>> THEN validateAgainstSchema(out.value, schema[1])
        ELSE out
      Interpreted(clauses) ==
        IF clauses.kind # "ok" THEN clauses
        ELSE Validated(Clauses(EmptyQuery, clauses.value))
      Split(trimmed) ==
        IF trimmed = <<>> THEN Ok(EmptyQuery) ELSE Interpreted(splitTopLevel(trimmed))
  IN Split(Trim(input))

\* As isValidPlainText, had it not handed the schema on.
isValidPlainTextWithoutSchema(input, schema) ==
  LET Caught(r) ==
        IF r.kind = "ok" THEN Ok(TRUE)
        ELSE IF r.kind = "ParseError" THEN Ok(FALSE)
        ELSE r
  IN Caught(parsePlainText(input, <<>>))

\* try { parsePlainText(input, schema); return true }
\* catch (err) { if (err instanceof ParseError) return false; throw err }
isValidPlainText(input, schema) ==
  LET Caught(r) ==
        IF r.kind = "ok" THEN Ok(TRUE)
        ELSE IF r.kind = "ParseError" THEN Ok(FALSE)
        ELSE r
  IN Caught(parsePlainText(input, schema))

-----------------------------------------------------------------------------
(* autocomplete.ts: the scanners                                           *)

\* A call that never returns: a loop whose state no longer changes.
Hang == [kind |-> "hang", value |-> <<>>, message |-> <<>>]

\* const WHERE_OPS = ["!=", "<=", ">=", "=", "<", ">"]
WHERE_OPS == << <<"!", "=">>, <<"<", "=">>, <<">", "=">>, <<"=">>, <<"<">>, <<">">> >>

\* findNextKeyStart(s, fromIndex): the regular expression has the flags gi
findNextKeyStart(s, fromIndex) == NextKeyIndex(s, fromIndex, TRUE)

\* skipQuotedString(s, startIndex): the index after the closing quote, or
\* where the scan ran out of text
skipQuotedString(s, startIndex) == ScanQuote(s, startIndex + 1).i

\* skipWhereBlock(s, startIndex): startIndex is at the w of where:
skipWhereBlock(s, startIndex) ==
  IF CharAt(s, startIndex + 6) # "(" THEN startIndex + 6
  ELSE WhereBlockScan(s, startIndex + 7, 1).i

\* beforeCursor.slice(i).match(/^(entity|limit|include):/i): the key matched,
\* or <<>>
KeyMatch(s, i, keys) ==
  LET ks == {K \in keys : HasAt(ToLower(s), i, K \o Colon)} IN
  IF ks = {} THEN <<>> ELSE CHOOSE K \in ks : TRUE

RECURSIVE IncludeSkip(_, _)
\* The loop that skips an include value: to the next clause start or the end.
IncludeSkip(s, i0) ==
  IF i0 >= Len(s) THEN i0
  ELSE
    LET i == SkipWs(s, i0) IN
    IF i >= Len(s) THEN i
    ELSE IF HasAt(s, i, K_where \o Colon) /\ CharAt(s, i + 6) = "(" THEN i
    ELSE IF KeyMatch(s, i, {K_entity, K_limit, K_order, K_include}) # <<>> THEN i
    ELSE IF s[i + 1] = Quote THEN IncludeSkip(s, skipQuotedString(s, i))
    ELSE IncludeSkip(s, i + 1)

\* SegmentResult
Segment(segment, startIndex) == [segment |-> segment, startIndex |-> startIndex]

RECURSIVE SegmentLoop(_, _, _, _)
\* The while loop of getSegmentAtCursor and the two returns after it.
\* b is beforeCursor; its length is len.
SegmentLoop(q, cur, i0, lastClauseStart) ==
  LET Scan(b, len, i) ==
        IF i >= len THEN
          IF cur = Len(q) /\ len > 0 /\ IsWs(b[len]) THEN Segment(<<>>, len)
          ELSE Segment(SliceFrom(b, lastClauseStart), lastClauseStart)
        ELSE IF b[i + 1] = Quote
          THEN SegmentLoop(q, cur, skipQuotedString(b, i), lastClauseStart)
        ELSE IF HasAt(b, i, K_where \o Colon) /\ CharAt(b, i + 6) = "(" THEN
          LET Block(endOfBlock) ==
                IF cur <= endOfBlock THEN Segment(Slice(b, i, cur), i)
                ELSE Segment(Slice(b, endOfBlock, cur), endOfBlock)
          IN Block(skipWhereBlock(b, i))
        ELSE IF ToLower(Slice(b, i, i + 6)) = K_order \o Colon THEN
          LET Order(segmentEnd) ==
                IF cur < segmentEnd THEN Segment(Slice(b, i, cur), i)
                ELSE IF segmentEnd < len THEN SegmentLoop(q, cur, segmentEnd, segmentEnd)
                ELSE IF cur = len /\ IsWs(b[len]) /\ Trim(Slice(b, i + 6, segmentEnd)) = <<>>
                  THEN SegmentLoop(q, cur, len, len)
                ELSE Segment(Slice(b, i, cur), i)
          IN Order(findNextKeyStart(b, i + 6))
        ELSE
          LET Keyed(key) ==
                IF key = <<>> THEN SegmentLoop(q, cur, SkipNonWs(b, i), i)
                ELSE IF key = K_include
                  THEN SegmentLoop(q, cur, IncludeSkip(b, i + Len(key) + 1), i)
                ELSE SegmentLoop(q, cur, SkipNonWs(b, i + Len(key) + 1), i)
          IN Keyed(KeyMatch(b, i, {K_entity, K_limit, K_include}))
      From(b) == Scan(b, Len(b), SkipWs(b, i0))
  IN From(Slice(q, 0, cur))

getSegmentAtCursor(q, cur) == SegmentLoop(q, cur, 0, 0)

\* query.match(/entity:([^\s]*)/)?.[1]?.trim() ?? ""
getEntityValueFromQuery(q) ==
  LET js == {j \in 0..(Len(q) - 1) : HasAt(q, j, K_entity \o Colon)} IN
  IF js = {} THEN <<>>
  ELSE LET j == CHOOSE j \in js : \A k \in js : j <= k
       IN Trim(Slice(q, j + 7, SkipNonWs(q, j + 7)))

\* keys.add(key): a Set keeps the first insertion
SetAdd(keys, key) == IF Has(keys, key) THEN keys ELSE Append(keys, key)

RECURSIVE KeysLoop(_, _, _)
KeysLoop(q, i0, keys) ==
  LET i == SkipWs(q, i0) IN
  IF i >= Len(q) THEN keys
  ELSE IF q[i + 1] = Quote THEN KeysLoop(q, skipQuotedString(q, i), keys)
  ELSE IF HasAt(q, i, K_where \o Colon) THEN
    KeysLoop(q, skipWhereBlock(q, i), SetAdd(keys, K_where))
  ELSE IF ToLower(Slice(q, i, i + 6)) = K_order \o Colon THEN
    KeysLoop(q, findNextKeyStart(q, i + 6), SetAdd(keys, K_order))
  ELSE
    LET e          == SkipNonWs(q, i)
        segment    == Slice(q, i, e)
        colonIndex == IndexOf(segment, ":")
        key        == ToLower(Trim(Slice(segment, 0, colonIndex)))
    IN IF colonIndex # -1 /\ key \in {K_entity, K_limit, K_include}
         THEN KeysLoop(q, e, SetAdd(keys, key))
       ELSE KeysLoop(q, e, keys)

getTopLevelKeysUsed(q) == KeysLoop(q, 0, <<>>)

-----------------------------------------------------------------------------
(* autocomplete.ts: tokenizeWhereInner, parseWhereInner                    *)

\* const wordChar = /[^\s()"=<>!]/
IsWordChar(c) == c \notin WordStop

\* Token
Token(type, value) == [type |-> type, value |-> value]

\* The keyword test at i for a keyword w: the text has w there in any letter
\* case, followed by the end of the text or by a character that is no
\* wordChar.
KeywordAt(s, i, w) ==
  /\ Len(s) - i >= Len(w)
  /\ ToLower(Slice(s, i, i + Len(w))) = w
  /\ (i + Len(w) >= Len(s) \/ ~IsWordChar(s[i + Len(w) + 1]))

RECURSIVE ScanValue(_, _, _)
\* The quoted-string loop of tokenizeWhereInner from the index after the
\* opening quote; an unterminated string ends with the text.
ScanValue(s, i, value) ==
  IF i >= Len(s) THEN [i |-> i, value |-> value]
  ELSE IF s[i + 1] = BackSlash THEN
    IF i + 1 < Len(s) THEN ScanValue(s, i + 2, Append(value, s[i + 2]))
    ELSE ScanValue(s, i + 1, value)
  ELSE IF s[i + 1] = Quote THEN [i |-> i + 1, value |-> value]
  ELSE ScanValue(s, i + 1, Append(value, s[i + 1]))

\* One iteration of the while loop of tokenizeWhereInner from index i (the
\* text is not exhausted there): the index and the tokens after it.
InnerStep(s, i0, tokens) ==
  LET i == SkipWs(s, i0) IN
  IF i >= Len(s) THEN [i |-> i, tokens |-> tokens, done |-> TRUE]
  ELSE IF s[i + 1] = "(" \/ s[i + 1] = ")" THEN
    [i |-> i + 1, tokens |-> Append(tokens, Token("paren", <<s[i + 1]>>)), done |-> FALSE]
  ELSE IF KeywordAt(s, i, W_or) THEN
    [i |-> i + 2, tokens |-> Append(tokens, Token("keyword", Slice(s, i, i + 2))), done |-> FALSE]
  ELSE IF KeywordAt(s, i, W_and) THEN
    [i |-> i + 3, tokens |-> Append(tokens, Token("keyword", Slice(s, i, i + 3))), done |-> FALSE]
  ELSE IF OpAt(s, i, WHERE_OPS) # <<>> THEN
    [i |-> i + Len(OpAt(s, i, WHERE_OPS)),
     tokens |-> Append(tokens, Token("op", OpAt(s, i, WHERE_OPS))), done |-> FALSE]
  ELSE IF s[i + 1] = Quote THEN
    LET v == ScanValue(s, i + 1, <<>>) IN
    [i |-> v.i, tokens |-> Append(tokens, Token("value", v.value)), done |-> FALSE]
  ELSE
    LET e    == SkipWord(s, i)
        word == Slice(s, i, e)
    IN IF word # <<>>
         THEN [i |-> e,
               tokens |-> Append(tokens,
                 Token(IF ToLower(word) \in {W_and, W_or} THEN "keyword" ELSE "word", word)),
               done |-> FALSE]
       ELSE [i |-> e, tokens |-> tokens, done |-> FALSE]

RECURSIVE InnerLoop(_, _, _)
\* while (i < s.length) { ... }: the loop returns when the text is exhausted,
\* and never returns once an iteration leaves i and tokens as they were.
InnerLoop(s, i, tokens) ==
  IF i >= Len(s) THEN Ok(tokens)
  ELSE
    LET After(n) ==
          IF n.done THEN Ok(n.tokens)
          ELSE IF n.i = i /\ n.tokens = tokens THEN Hang
          ELSE InnerLoop(s, n.i, n.tokens)
    IN After(InnerStep(s, i, tokens))

tokenizeWhereInner(s) == InnerLoop(s, 0, <<>>)

\* WhereParseResult: field and op are <<>> when undefined, <<x>> otherwise
WhereParse(kind, partial, field, op) ==
  [kind |-> kind, partial |-> partial, field |-> field, op |-> op]

\* tokens[tokens.length - k]?.value, as an optional
FromEnd(tokens, k) == IF Len(tokens) >= k THEN <<tokens[Len(tokens) - k + 1].value>> ELSE <<>>
TypeFromEnd(tokens, k) == IF Len(tokens) >= k THEN tokens[Len(tokens) - k + 1].type ELSE Undefined

parseWhereInner(inner) ==
  LET Editing(tokens, last) ==
        IF last.type = "word" THEN
          IF TypeFromEnd(tokens, 2) = "op"
            THEN Ok(WhereParse("value", last.value, FromEnd(tokens, 3), FromEnd(tokens, 2)))
          ELSE Ok(WhereParse("field", last.value, <<>>, <<>>))
        ELSE IF last.type = "op" THEN
          Ok(WhereParse("value", <<>>, FromEnd(tokens, 2), <<last.value>>))
        ELSE IF last.type = "value" THEN
          Ok(WhereParse("value", last.value, FromEnd(tokens, 3), FromEnd(tokens, 2)))
        ELSE Ok(WhereParse("field", <<>>, <<>>, <<>>))
      Tokenized(toks) ==
        IF toks.kind # "ok" THEN toks
        ELSE IF Len(toks.value) = 0 THEN Ok(WhereParse("field", <<>>, <<>>, <<>>))
        ELSE Editing(toks.value, toks.value[Len(toks.value)])
      Trimmed(trimmed) ==
        IF trimmed = <<>> THEN Ok(WhereParse("field", <<>>, <<>>, <<>>))
        ELSE Tokenized(tokenizeWhereInner(trimmed))
  IN Trimmed(TrimEnd(inner))

-----------------------------------------------------------------------------
(* autocomplete.ts: getContext                                             *)

\* CursorContext.  A field a kind does not carry is <<>> (usedKeys,
\* entityValue, field, op) or "undefined" (afterField, else "true"/"false").
Context(kind, partial) ==
  [kind |-> kind, partial |-> partial, usedKeys |-> <<>>, entityValue |-> <<>>,
   field |-> <<>>, op |-> <<>>, afterField |-> Undefined]
TopLevel(partial, usedKeys) == [Context("top-level", partial) EXCEPT !.usedKeys = usedKeys]
WithEntity(kind, partial, entityValue) ==
  [Context(kind, partial) EXCEPT !.entityValue = entityValue]

\* The order case of getContext.
OrderContext(value, entityValue) ==
  LET comma          == LastIndexOf(value, ",")
      afterLastComma == IF comma # -1 THEN SliceFrom(value, comma + 1) ELSE value
      trimmed        == TrimEnd(afterLastComma)
      lastSpace      == LastIndexOf(trimmed, " ")
      partial        == IF EndsWithChar(afterLastComma, " ") \/ Trim(afterLastComma) = <<>>
                          THEN <<>>
                        ELSE IF lastSpace = -1 THEN trimmed
                        ELSE SliceFrom(trimmed, lastSpace + 1)
      afterField     == Len(trimmed) > 0 /\ EndsWithChar(afterLastComma, " ")
  IN [WithEntity("order-value", partial, entityValue)
        EXCEPT !.afterField = IF afterField THEN "true" ELSE "false"]

\* The include case of getContext.
IncludeContext(value, entityValue) ==
  LET comma == LastIndexOf(value, ",") IN
  WithEntity("include-value",
             IF comma # -1 THEN Trim(SliceFrom(value, comma + 1)) ELSE Trim(value),
             entityValue)

RECURSIVE Balance(_)
\* for (const c of inner) { if (c === "(") balance++; else if (c === ")") balance--; }
Balance(s) ==
  IF Len(s) = 0 THEN 0
  ELSE Balance(Tail(s)) + (IF s[1] = "(" THEN 1 ELSE IF s[1] = ")" THEN -1 ELSE 0)

\* The text that the where case hands to parseWhereInner.
WhereInner(value) ==
  LET Strip(inner) ==
        IF EndsWithChar(inner, ")") /\ Balance(inner) = -1
          THEN Trim(Slice(inner, 0, Len(inner) - 1))
        ELSE inner
      Open(v) == Strip(IF StartsWith(v, <<"(">>) THEN SliceFrom(v, 1) ELSE v)
  IN Open(Trim(value))

\* The where case of getContext.
WhereContext(value, entityValue) ==
  LET Of(parsed) ==
        IF parsed.kind # "ok" THEN parsed
        ELSE IF parsed.value.kind = "field"
          THEN Ok(WithEntity("where-field", parsed.value.partial, entityValue))
        ELSE Ok([WithEntity("where-value", parsed.value.partial, entityValue)
                   EXCEPT !.field = IF parsed.value.field = <<>> THEN <<>>
                                    ELSE parsed.value.field[1],
                          !.op    = IF parsed.value.op = <<>> THEN <<"=">>
                                    ELSE parsed.value.op[1]])
  IN Of(parseWhereInner(WhereInner(value)))

\* As SafeCursor, had a negative cursor been sent to the end of the query.
SafeCursorAtEnd(q, cur) == IF cur < 0 THEN Len(q) ELSE Min(cur, Len(q))

\* Math.max(0, Math.min(cursor, query.length))
SafeCursor(q, cur) == Max(0, Min(cur, Len(q)))

\* The branch of getContext for a segment without a colon.
NoColonContext(q, safeCursor, segment, entityValue, usedKeys) ==
  LET Of(trimmedSegment, justTypedColon) ==
        IF justTypedColon /\ trimmedSegment = K_entity THEN Context("entity-value", <<>>)
        ELSE IF justTypedColon /\ trimmedSegment = K_limit THEN Context("limit-value", <<>>)
        ELSE IF justTypedColon /\ trimmedSegment = K_order
          THEN WithEntity("order-value", <<>>, entityValue)
        ELSE IF justTypedColon /\ trimmedSegment = K_include
          THEN WithEntity("include-value", <<>>, entityValue)
        ELSE IF trimmedSegment = K_where /\ CharAt(q, safeCursor - 1) = "("
          THEN WithEntity("where-field", <<>>, entityValue)
        ELSE TopLevel(Trim(segment), usedKeys)
  IN Of(ToLower(Trim(segment)), CharAt(q, safeCursor - 1) = ":")

getContext(q, cur) ==
  LET Keyed(segment, entityValue, key, value) ==
        IF key = K_entity THEN Ok(Context("entity-value", value))
        ELSE IF key = K_limit THEN Ok(Context("limit-value", Trim(value)))
        ELSE IF key = K_order THEN Ok(OrderContext(value, entityValue))
        ELSE IF key = K_include THEN Ok(IncludeContext(value, entityValue))
        ELSE IF key = K_where THEN WhereContext(value, entityValue)
        ELSE Ok(Context("unknown", segment))
      Of(safeCursor, segment, entityValue, usedKeys, colonIndex) ==
        IF segment = <<>> THEN Ok(TopLevel(<<>>, usedKeys))
        ELSE IF colonIndex = -1
          THEN Ok(NoColonContext(q, safeCursor, segment, entityValue, usedKeys))
        ELSE Keyed(segment, entityValue, ToLower(Trim(Slice(segment, 0, colonIndex))),
                   SliceFrom(segment, colonIndex + 1))
      Within(safeCursor, segment) ==
        Of(safeCursor, segment, getEntityValueFromQuery(q), getTopLevelKeysUsed(q),
           IndexOf(segment, ":"))
      At(safeCursor) == Within(safeCursor, getSegmentAtCursor(q, safeCursor).segment)
  IN At(SafeCursor(q, cur))

-----------------------------------------------------------------------------
(* autocomplete.ts: getSuggestions, findRelevantEntities                   *)

\* const TOP_LEVEL_KEYS = ["entity:", "limit:", "order:", "include:", "where:("]
TOP_LEVEL_KEYS ==
  << K_entity \o Colon, K_limit \o Colon, K_order \o Colon, K_include \o Colon,
     K_where \o Colon \o <<"(">> >>

\* Suggestion: replacePartial is "undefined" when the property is absent
Suggestion(label, replacePartial, replaceLength) ==
  [label |-> label, insertText |-> label, replacePartial |-> replacePartial,
   replaceLength |-> replaceLength]

\* As withReplace, had it given every suggestion the length of the partial.
withReplaceAlways(label, replacePartial, context) ==
  Suggestion(label, replacePartial, Len(context.partial))

\* withReplace({ label, insertText, replacePartial? })
withReplace(label, replacePartial, context) ==
  IF replacePartial = "false" THEN Suggestion(label, replacePartial, 0)
  ELSE Suggestion(label, replacePartial, Len(context.partial))

\* As matchesPartial, had it let every name through.
matchesPartialAlways(name, context) ==
  context.partial = <<>> \/ Len(name) >= 0

\* matchesPartial(name)
matchesPartial(name, context) ==
  context.partial = <<>> \/ StartsWith(ToLower(name), ToLower(context.partial))

RECURSIVE RemoveFirst(_, _)
\* k.replace(c, ""): without the first c
RemoveFirst(s, c) ==
  IF Len(s) = 0 THEN <<>>
  ELSE IF s[1] = c THEN Tail(s) ELSE <<s[1]>> \o RemoveFirst(Tail(s), c)

RECURSIVE Matching(_, _)
\* The names of a list that match the partial, in order.
Matching(names, context) ==
  IF Len(names) = 0 THEN <<>>
  ELSE (IF matchesPartial(names[1], context) THEN <<names[1]>> ELSE <<>>)
         \o Matching(Tail(names), context)

RECURSIVE Suggest(_, _, _)
\* names.map((n) => withReplace({ label: n, insertText: n }))
Suggest(names, replacePartial, context) ==
  IF Len(names) = 0 THEN <<>>
  ELSE <<withReplace(names[1], replacePartial, context)>>
         \o Suggest(Tail(names), replacePartial, context)

RECURSIVE FilterEntities(_, _)
FilterEntities(entities, lowerEntityValue) ==
  IF Len(entities) = 0 THEN <<>>
  ELSE (IF ToLower(entities[1].name) = lowerEntityValue
           \/ StartsWith(ToLower(entities[1].name), lowerEntityValue)
        THEN <<entities[1]>> ELSE <<>>) \o FilterEntities(Tail(entities), lowerEntityValue)

findRelevantEntities(schema, entityValue) ==
  IF entityValue = <<>> THEN schema.entities
  ELSE FilterEntities(schema.entities, ToLower(entityValue))

RECURSIVE FieldNames(_)
\* The field names of the entities, entity by entity (entity.fields ?? {}).
FieldNames(entities) ==
  IF Len(entities) = 0 THEN <<>>
  ELSE (IF entities[1].fields = <<>> THEN <<>> ELSE Names(entities[1].fields[1]))
         \o FieldNames(Tail(entities))

RECURSIVE RelationNames(_)
\* The relation names of the entities, entity by entity (entity.relations ?? []).
RelationNames(entities) ==
  IF Len(entities) = 0 THEN <<>>
  ELSE (IF entities[1].relations = <<>> THEN <<>> ELSE entities[1].relations[1])
         \o RelationNames(Tail(entities))

\* entity.fields?.[field]?.values, or <<>> when any part is undefined
ValuesOf(entity, field) ==
  IF entity.fields = <<>> THEN <<>>
  ELSE LET ks == {k \in 1..Len(entity.fields[1]) : entity.fields[1][k].name = field} IN
       IF ks = {} THEN <<>>
       ELSE LET def == entity.fields[1][CHOOSE k \in ks : TRUE] IN
            IF def.values = <<>> THEN <<>> ELSE def.values[1]

RECURSIVE FieldValues(_, _)
FieldValues(entities, field) ==
  IF Len(entities) = 0 THEN <<>>
  ELSE ValuesOf(entities[1], field) \o FieldValues(Tail(entities), field)

RECURSIVE UnusedKeys(_, _)
\* TOP_LEVEL_KEYS.filter((k) => !usedKeys.has(keyName) && matchesPartial(keyName))
UnusedKeys(keys, context) ==
  IF Len(keys) = 0 THEN <<>>
  ELSE LET keyName == RemoveFirst(RemoveFirst(keys[1], ":"), "(") IN
       (IF ~Has(context.usedKeys, keyName) /\ matchesPartial(keyName, context)
        THEN <<keys[1]>> ELSE <<>>) \o UnusedKeys(Tail(keys), context)

\* As WhereFieldSuggestions, had an exactly typed field name been offered again.
WhereFieldNamesOnly(context, schema) ==
  Suggest(Dedup(Matching(FieldNames(findRelevantEntities(schema, context.entityValue)),
                         context)), Undefined, context)

\* The where-field case: the matching field names, or the operators when the
\* partial is one of them.
WhereFieldSuggestions(context, schema) ==
  LET fieldMap == Dedup(Matching(FieldNames(findRelevantEntities(schema, context.entityValue)),
                                 context))
      exactFieldMatch == context.partial # <<>> /\ Has(fieldMap, context.partial)
  IN IF exactFieldMatch THEN Suggest(WHERE_OPS, "false", context)
     ELSE Suggest(fieldMap, Undefined, context)

\* The order-value case.
OrderSuggestions(context, schema) ==
  LET fieldMap == Dedup(Matching(FieldNames(findRelevantEntities(schema, context.entityValue)),
                                 context))
  IN Suggest(fieldMap, Undefined, context)
       \o (IF context.afterField = "true"
           THEN Suggest(Matching(<<W_asc, W_desc>>, context), Undefined, context)
           ELSE <<>>)

getSuggestions(context, schema) ==
  IF context.kind = "top-level"
    THEN Suggest(UnusedKeys(TOP_LEVEL_KEYS, context), Undefined, context)
  ELSE IF context.kind = "entity-value"
    THEN Suggest(Matching(Names(schema.entities), context), Undefined, context)
  ELSE IF context.kind = "limit-value" THEN <<>>
  ELSE IF context.kind = "order-value" THEN OrderSuggestions(context, schema)
  ELSE IF context.kind = "include-value"
    THEN Suggest(Dedup(Matching(RelationNames(findRelevantEntities(schema, context.entityValue)),
                                context)), Undefined, context)
  ELSE IF context.kind = "where-field" THEN WhereFieldSuggestions(context, schema)
  ELSE IF context.kind = "where-value"
    THEN Suggest(Dedup(Matching(FieldValues(findRelevantEntities(schema, context.entityValue),
                                            context.field), context)), Undefined, context)
  ELSE <<>>

\* getSuggestions(getContext(query, cursor), schema)
getSuggestionsAtCursor(q, cur, schema) ==
  LET Of(context) ==
        IF context.kind # "ok" THEN context ELSE Ok(getSuggestions(context.value, schema))
  IN Of(getContext(q, cur))

-----------------------------------------------------------------------------
(* The schemas handed to the parser and to the suggestion engine           *)

N_u == <<"u">>
N_v == <<"v">>
N_r == <<"r">>
N_s == <<"s">>
N_a == <<"a">>
N_b == <<"b">>

\* u has relations and fields, v has neither part.
SchemaFull ==
  Schema(<< EntityDef(N_u, << <<N_r, N_s>> >>,
                      << << FieldDef(N_a, << << <<"x">>, <<"y">> >> >>), FieldDef(N_b, <<>>) >> >>),
            EntityDef(N_v, <<>>, <<>>) >>)

\* defineSchema([])
SchemaNoEntities == Schema(<<>>)

\* The schema argument: omitted, or one of the schemas.
Schemas == {<<>>, <<SchemaNoEntities>>, <<SchemaFull>>}

-----------------------------------------------------------------------------
(* Typing clauses into the filter bar, then parsing                        *)

\* A clause as the user types it: its key (lower case, "" when it has none),
\* its text, and the same text with the order field names replaced by other
\* names.
Piece(key, txt, alt) == [key |-> key, text |-> txt, alt |-> alt]
Same(key, txt)       == Piece(key, txt, txt)

K_ENTITY == <<"E", "N", "T", "I", "T", "Y">>
K_LIMIT  == <<"L", "I", "M", "I", "T">>
K_ORDER  == <<"O", "R", "D", "E", "R">>

Pieces ==
  << Same("entity", K_entity \o Colon \o N_u),                        \* entity:u
     Same("entity", K_entity \o Colon \o N_v),                        \* entity:v
     Same("entity", K_ENTITY \o Colon \o <<"x">>),                    \* ENTITY:x
     Same("limit", K_limit \o Colon \o <<"5">>),                      \* limit:5
     Same("limit", K_LIMIT \o Colon \o <<"7">>),                      \* LIMIT:7
     Piece("order", K_order \o Colon \o <<"a", " ", "a", "s", "c">>,  \* order:a asc
                    K_order \o Colon \o <<"z", "z", " ", "a", "s", "c">>),
     Piece("order", K_ORDER \o Colon \o N_b,                        \* ORDER:b
                    K_ORDER \o Colon \o <<"z", "z">>),
     Same("include", K_include \o Colon \o N_r),                      \* include:r
     Same("include", K_include \o Colon \o <<"r", ",", "q">>),        \* include:r,q
     Same("where", K_where \o Colon \o <<"(", "a", "=", "1", ")">>),  \* where:(a=1)
     \* where:(zz=1 OR (a=2 yy=3 zz=4))
     Same("where", K_where \o Colon \o
            <<"(", "z", "z", "=", "1", " ", "O", "R", " ", "(", "a", "=", "2", " ",
              "y", "y", "=", "3", " ", "z", "z", "=", "4", ")", ")">>),
     Same("where", K_where \o Colon \o <<"(", "a", "!", "b", ")">>),  \* where:(a!b)
     Same("", <<Quote, "x">>) >>                                      \* "x

\* How many clauses are typed at most.
MaxClauses == 3

RECURSIVE TextOf(_, _)
\* The text of the pieces, joined by single spaces (alt: with the order
\* fields renamed).
TextOf(ids, alt) ==
  IF Len(ids) = 0 THEN <<>>
  ELSE LET t == IF alt THEN Pieces[ids[1]].alt ELSE Pieces[ids[1]].text IN
       IF Len(ids) = 1 THEN t ELSE t \o <<" ">> \o TextOf(Tail(ids), alt)

Idle ==
  /\ caret = 0
  /\ result = NoCall
  /\ valid = NoCall
  /\ ctxOut = NoCall
  /\ sugOut = NoCall

Init ==
  /\ text = <<>>
  /\ typed = <<>>
  /\ passed = <<>>
  /\ pc = "typing"
  /\ Idle

\* The user types one more clause.
TypeClause(id) ==
  /\ pc = "typing"
  /\ Len(typed) < MaxClauses
  /\ typed' = Append(typed, id)
  /\ text' = TextOf(typed', FALSE)
  /\ UNCHANGED <<passed, caret, pc, result, valid, ctxOut, sugOut>>

\* parsePlainText(text) or parsePlainText(text, schema)
ParsePlainText(s) ==
  /\ pc = "typing"
  /\ passed' = s
  /\ result' = parsePlainText(text, s)
  /\ pc' = "parsed"
  /\ UNCHANGED <<text, typed, caret, valid, ctxOut, sugOut>>

\* isValidPlainText with the same arguments
IsValidPlainText ==
  /\ pc = "parsed"
  /\ valid' = isValidPlainText(text, passed)
  /\ pc' = "validated"
  /\ UNCHANGED <<text, typed, passed, caret, result, ctxOut, sugOut>>

Next ==
  \/ \E id \in 1..Len(Pieces) : TypeClause(id)
  \/ \E s \in Schemas : ParsePlainText(s)
  \/ IsValidPlainText

Spec == Init /\ [][Next]_vars

-----------------------------------------------------------------------------
(* Typing a where expression token by token, then parsing                  *)

\* How many tokens and how many comparisons are typed at most.
MaxTokens      == 7
MaxComparisons == 3

FieldLetters == <<"a", "b", "c", "d", "e", "f", "g", "h">>

\* The k-th comparison typed: a!=1, b<=2, c>=3, d=4, e<5, f>6, ...
ComparisonField(k) == <<FieldLetters[k]>>
ComparisonOp(k)    == OPS[((k - 1) % Len(OPS)) + 1]
ComparisonValue(k) == <<Digits[k + 1]>>
ComparisonText(k)  == ComparisonField(k) \o ComparisonOp(k) \o ComparisonValue(k)

\* The tokens typed are "cmp", "(", ")", "or" (typed OR) and "and".
CountOf(tokens, t) == Cardinality({k \in 1..Len(tokens) : tokens[k] = t})
Depth(tokens)      == CountOf(tokens, "(") - CountOf(tokens, ")")

RECURSIVE TokensText(_, _)
\* The tokens from the k-th on, as text, with one space between two tokens.
TokensText(tokens, k) ==
  IF k > Len(tokens) THEN <<>>
  ELSE LET t == tokens[k]
           w == IF t = "cmp" THEN ComparisonText(CountOf(SubSeq(tokens, 1, k), "cmp"))
                ELSE IF t = "or" THEN <<"O", "R">>
                ELSE IF t = "and" THEN W_and
                ELSE <<t>>
       IN IF k = Len(tokens) THEN w ELSE w \o <<" ">> \o TokensText(tokens, k + 1)

\* where:(<tokens>)
WhereText(tokens) == K_where \o Colon \o <<"(">> \o TokensText(tokens, 1) \o <<")">>

InitWhere ==
  /\ typed = <<>>
  /\ text = WhereText(<<>>)
  /\ passed = <<>>
  /\ pc = "typing"
  /\ Idle

TypeToken(t) ==
  /\ pc = "typing"
  /\ Len(typed) < MaxTokens
  /\ typed' = Append(typed, t)
  /\ text' = WhereText(typed')
  /\ UNCHANGED <<passed, caret, pc, result, valid, ctxOut, sugOut>>

TypeComparison == CountOf(typed, "cmp") < MaxComparisons /\ TypeToken("cmp")
TypeOpen       == TypeToken("(")
TypeClose      == Depth(typed) > 0 /\ TypeToken(")")
TypeOr         == TypeToken("or")
TypeAnd        == TypeToken("and")

\* parsePlainText(text)
ParseWhereText == ParsePlainText(<<>>)

NextWhere ==
  \/ TypeComparison
  \/ TypeOpen
  \/ TypeClose
  \/ TypeOr
  \/ TypeAnd
  \/ ParseWhereText

SpecWhere == InitWhere /\ [][NextWhere]_vars

-----------------------------------------------------------------------------
(* Typing into the filter bar and asking for completions                   *)

K_WHERE == <<"W", "H", "E", "R", "E">>

\* What is typed at a time: entity:u and a space, where:(, x:, single
\* characters, and a whole where clause with its key in capitals and a space.
Chunks ==
  << K_entity \o Colon \o N_u \o <<" ">>,
     K_where \o Colon \o <<"(">>,
     <<"x">> \o Colon,
     <<"a">>, <<"!">>, <<"=">>, <<Quote>>, <<")">>,
     <<"A">>,
     K_WHERE \o Colon \o <<"(", "a", ")", " ">> >>

\* How many chunks are typed at most.
MaxChunks == 3

\* The cursors tried: every position of the text, one before and one past.
Cursors(q) == (0 - 1)..(Len(q) + 1)

\* The schemas of the suggestion engine.
SuggestionSchemas == {SchemaNoEntities, SchemaFull}

InitCtx ==
  /\ text = <<>>
  /\ typed = <<>>
  /\ passed = <<>>
  /\ pc = "typing"
  /\ Idle

TypeChunk(id) ==
  /\ pc = "typing"
  /\ Len(typed) < MaxChunks
  /\ typed' = Append(typed, id)
  /\ text' = text \o Chunks[id]
  /\ UNCHANGED <<passed, caret, pc, result, valid, ctxOut, sugOut>>

\* getContext(text, cur)
GetContext(cur) ==
  /\ pc = "typing"
  /\ caret' = cur
  /\ ctxOut' = getContext(text, cur)
  /\ pc' = "context"
  /\ UNCHANGED <<text, typed, passed, result, valid, sugOut>>

\* getSuggestions(context, schema) for the context that getContext returned
GetSuggestions(schema) ==
  /\ pc = "context"
  /\ ctxOut.kind = "ok"
  /\ passed' = <<schema>>
  /\ sugOut' = Ok(getSuggestions(ctxOut.value, schema))
  /\ pc' = "suggested"
  /\ UNCHANGED <<text, typed, caret, result, valid, ctxOut>>

\* getSuggestionsAtCursor(text, cur, schema)
GetSuggestionsAtCursor(cur, schema) ==
  /\ pc = "typing"
  /\ caret' = cur
  /\ passed' = <<schema>>
  /\ sugOut' = getSuggestionsAtCursor(text, cur, schema)
  /\ pc' = "suggestedAtCursor"
  /\ UNCHANGED <<text, typed, result, valid, ctxOut>>

NextCtx ==
  \/ \E id \in 1..Len(Chunks) : TypeChunk(id)
  \/ \E cur \in Cursors(text) : GetContext(cur)
  \/ \E schema \in SuggestionSchemas : GetSuggestions(schema)
  \/ \E cur \in Cursors(text), schema \in SuggestionSchemas : GetSuggestionsAtCursor(cur, schema)

SpecCtx == InitCtx /\ [][NextCtx]_vars

-----------------------------------------------------------------------------
(* Typing the value of a limit clause character by character, then parsing *)

\* The characters typed after limit: digits, signs, a decimal point, a letter.
LimitChars == <<"0", "1", "7", "-", "+", ".", "x">>

\* How many characters the value has at most.
MaxLimitChars == 3

InitLimit ==
  /\ typed = <<>>
  /\ text = K_limit \o Colon
  /\ passed = <<>>
  /\ pc = "typing"
  /\ Idle

TypeLimitChar(id) ==
  /\ pc = "typing"
  /\ Len(typed) < MaxLimitChars
  /\ typed' = Append(typed, id)
  /\ text' = text \o <<LimitChars[id]>>
  /\ UNCHANGED <<passed, caret, pc, result, valid, ctxOut, sugOut>>

\* parsePlainText(text)
ParseLimitText == ParsePlainText(<<>>)

NextLimit ==
  \/ \E id \in 1..Len(LimitChars) : TypeLimitChar(id)
  \/ ParseLimitText

SpecLimit == InitLimit /\ [][NextLimit]_vars

-----------------------------------------------------------------------------
(* Typing the value of an order clause word by word, then parsing          *)

W_DESC == <<"D", "E", "S", "C">>

\* What is typed after order: a word (a, asc, DESC, b) or a comma.
OrderTokens == <<N_a, W_asc, W_DESC, N_b, <<",">> >>

IsComma(id) == OrderTokens[id] = <<",">>

\* How many words and commas are typed at most.
MaxOrderTokens == 4

RECURSIVE OrderText(_, _)
\* The text of the first k tokens: a word that follows a word is set off by
\* a space.
OrderText(ids, k) ==
  IF k = 0 THEN K_order \o Colon
  ELSE OrderText(ids, k - 1)
         \o (IF k > 1 /\ ~IsComma(ids[k]) /\ ~IsComma(ids[k - 1]) THEN <<" ">> ELSE <<>>)
         \o OrderTokens[ids[k]]

InitOrder ==
  /\ typed = <<>>
  /\ text = OrderText(<<>>, 0)
  /\ passed = <<>>
  /\ pc = "typing"
  /\ Idle

TypeOrderToken(id) ==
  /\ pc = "typing"
  /\ Len(typed) < MaxOrderTokens
  /\ typed' = Append(typed, id)
  /\ text' = OrderText(typed', Len(typed'))
  /\ UNCHANGED <<passed, caret, pc, result, valid, ctxOut, sugOut>>

\* parsePlainText(text)
ParseOrderText == ParsePlainText(<<>>)

NextOrder ==
  \/ \E id \in 1..Len(OrderTokens) : TypeOrderToken(id)
  \/ ParseOrderText

SpecOrder == InitOrder /\ [][NextOrder]_vars

-----------------------------------------------------------------------------
(* Typing the value of a comparison, quoted or not, then parsing           *)

W_FALSE == <<"F", "A", "L", "S", "E">>

\* What a value is typed from: digits, a minus sign, a decimal point, words.
ValuePieces == << <<"1">>, <<"0">>, <<"-">>, <<".">>, W_true, W_FALSE, W_or, <<"x">> >>

\* typed[1] when the value was opened with a double quote: no piece.
OpeningQuote == Len(ValuePieces) + 1

\* How many pieces a value has at most.
MaxValuePieces == 4

IsQuoted(ids) == Len(ids) >= 1 /\ ids[1] = OpeningQuote

\* The pieces typed, without the opening quote.
PiecesTyped(ids) == IF IsQuoted(ids) THEN Tail(ids) ELSE ids

RECURSIVE ValueTyped(_)
\* The characters of the value, without its quotes.
ValueTyped(ids) ==
  IF Len(ids) = 0 THEN <<>>
  ELSE IF ids[1] = OpeningQuote THEN ValueTyped(Tail(ids))
  ELSE ValuePieces[ids[1]] \o ValueTyped(Tail(ids))

\* where:(a=VALUE) or where:(a="VALUE")
ValueText(ids) ==
  K_where \o Colon \o <<"(", "a", "=">>
    \o (IF IsQuoted(ids) THEN <<Quote>> \o ValueTyped(ids) \o <<Quote>> ELSE ValueTyped(ids))
    \o <<")">>

InitValue ==
  /\ typed = <<>>
  /\ text = ValueText(<<>>)
  /\ passed = <<>>
  /\ pc = "typing"
  /\ Idle

\* The user opens the value with a double quote; the closing one follows the
\* value.
TypeQuote ==
  /\ pc = "typing"
  /\ typed = <<>>
  /\ typed' = <<OpeningQuote>>
  /\ text' = ValueText(typed')
  /\ UNCHANGED <<passed, caret, pc, result, valid, ctxOut, sugOut>>

TypeValuePiece(id) ==
  /\ pc = "typing"
  /\ Len(PiecesTyped(typed)) < MaxValuePieces
  /\ typed' = Append(typed, id)
  /\ text' = ValueText(typed')
  /\ UNCHANGED <<passed, caret, pc, result, valid, ctxOut, sugOut>>

\* parsePlainText(text)
ParseValueText == ParsePlainText(<<>>)

NextValue ==
  \/ TypeQuote
  \/ \E id \in 1..Len(ValuePieces) : TypeValuePiece(id)
  \/ ParseValueText

SpecValue == InitValue /\ [][NextValue]_vars

-----------------------------------------------------------------------------
(* Typing a quoted value with parentheses in it, then parsing              *)

\* The characters typed between the quotes.
QuotedChars == <<"(", ")", "x", " ">>

\* How many characters the quoted value has at most.
MaxQuotedChars == 4

\* The characters between the quotes.
QuotedTyped(ids) == [k \in 1..Len(ids) |-> QuotedChars[ids[k]]]

\* where:(a="VALUE")
QuotedText(ids) ==
  K_where \o Colon \o <<"(", "a", "=", Quote>> \o QuotedTyped(ids) \o <<Quote, ")">>

InitQuoted ==
  /\ typed = <<>>
  /\ text = QuotedText(<<>>)
  /\ passed = <<>>
  /\ pc = "typing"
  /\ Idle

TypeQuotedChar(id) ==
  /\ pc = "typing"
  /\ Len(typed) < MaxQuotedChars
  /\ typed' = Append(typed, id)
  /\ text' = QuotedText(typed')
  /\ UNCHANGED <<passed, caret, pc, result, valid, ctxOut, sugOut>>

\* parsePlainText(text)
ParseQuotedText == ParsePlainText(<<>>)

NextQuoted ==
  \/ \E id \in 1..Len(QuotedChars) : TypeQuotedChar(id)
  \/ ParseQuotedText

SpecQuoted == InitQuoted /\ [][NextQuoted]_vars

-----------------------------------------------------------------------------
(* Typing whole clauses, then asking for the context at the end of one     *)

\* The well-formed clauses a query is made of.
WholeClauses ==
  << K_where \o Colon \o <<"(", "a", "=", "1", ")">>,      \* where:(a=1)
     K_limit \o Colon \o <<"5">>,                          \* limit:5
     K_entity \o Colon \o <<"U">>,                         \* entity:U
     K_include \o Colon \o N_r,                            \* include:r
     K_order \o Colon \o N_a \o <<" ">> \o W_desc >>       \* order:a desc

\* How many clauses a query has at most.
MaxQueryClauses == 3

RECURSIVE QueryText(_)
\* The clauses, joined by single spaces.
QueryText(ids) ==
  IF Len(ids) = 0 THEN <<>>
  ELSE IF Len(ids) = 1 THEN WholeClauses[ids[1]]
  ELSE QueryText(SubSeq(ids, 1, Len(ids) - 1)) \o <<" ">> \o WholeClauses[ids[Len(ids)]]

\* The cursor at the end of the k-th clause.
EndOfClause(ids, k) == Len(QueryText(SubSeq(ids, 1, k)))

InitClauses ==
  /\ typed = <<>>
  /\ text = <<>>
  /\ passed = <<>>
  /\ pc = "typing"
  /\ Idle

TypeWholeClause(id) ==
  /\ pc = "typing"
  /\ Len(typed) < MaxQueryClauses
  /\ typed' = Append(typed, id)
  /\ text' = QueryText(typed')
  /\ UNCHANGED <<passed, caret, pc, result, valid, ctxOut, sugOut>>

\* getContext(text, cursor) with the cursor at the end of a clause
GetContextAtClause(k) == GetContext(EndOfClause(typed, k))

NextClauses ==
  \/ \E id \in 1..Len(WholeClauses) : TypeWholeClause(id)
  \/ \E k \in 1..Len(typed) : GetContextAtClause(k)

SpecClauses == InitClauses /\ [][NextClauses]_vars

-----------------------------------------------------------------------------
(* Typing clauses, a space after each, then asking for the context         *)

InitSpaced == InitClauses

\* A clause and the space that ends it are typed.
TypeClauseAndSpace(id) ==
  /\ pc = "typing"
  /\ Len(typed) < MaxQueryClauses
  /\ typed' = Append(typed, id)
  /\ text' = text \o WholeClauses[id] \o <<" ">>
  /\ UNCHANGED <<passed, caret, pc, result, valid, ctxOut, sugOut>>

\* getContext(text, text.length)
GetContextAtEnd == GetContext(Len(text))

NextSpaced ==
  \/ \E id \in 1..Len(WholeClauses) : TypeClauseAndSpace(id)
  \/ GetContextAtEnd

SpecSpaced == InitSpaced /\ [][NextSpaced]_vars

-----------------------------------------------------------------------------
(* Asking for completions against a schema whose entities share names      *)

N_uv == <<"u", "v">>
N_w  == <<"w">>
N_t  == <<"t">>

\* u and uv both start with u; relations, fields and values are shared
\* between entities and repeated inside one; one field is called desc.
SchemaShared ==
  Schema(<< EntityDef(N_u, << <<N_r, N_s, N_r>> >>,
                      << << FieldDef(N_a, << << <<"x">>, <<"y">>, <<"x">> >> >>),
                            FieldDef(W_desc, <<>>) >> >>),
            EntityDef(N_uv, << <<N_s, N_t>> >>,
                      << << FieldDef(N_b, <<>>),
                            FieldDef(N_a, << << <<"y">>, <<"z">> >> >>) >> >>),
            EntityDef(N_w, << <<N_t, N_r>> >>,
                      << << FieldDef(N_a, << << <<"z">> >> >>) >> >>) >>)

SharedSchemas == {SchemaFull, SchemaShared}

\* What is typed: an entity clause, the start of a clause with a value to
\* complete, a letter of the value.
SharedPieces ==
  << K_entity \o Colon \o N_u \o <<" ">>,                 \* entity:u
     K_entity \o Colon \o <<"W", " ">>,                   \* entity:W
     K_include \o Colon,                                  \* include:
     K_order \o Colon,                                    \* order:
     K_order \o Colon \o N_a \o <<" ">>,                  \* order:a
     K_where \o Colon \o <<"(">>,                         \* where:(
     K_where \o Colon \o <<"(">> \o N_a \o <<"=">>,       \* where:(a=
     N_r, <<"d">>, <<"y">> >>

\* How many pieces are typed at most.
MaxSharedPieces == 3

InitShared ==
  /\ typed = <<>>
  /\ text = <<>>
  /\ passed = <<>>
  /\ pc = "typing"
  /\ Idle

TypeSharedPiece(id) ==
  /\ pc = "typing"
  /\ Len(typed) < MaxSharedPieces
  /\ typed' = Append(typed, id)
  /\ text' = text \o SharedPieces[id]
  /\ UNCHANGED <<passed, caret, pc, result, valid, ctxOut, sugOut>>

NextShared ==
  \/ \E id \in 1..Len(SharedPieces) : TypeSharedPiece(id)
  \/ GetContextAtEnd
  \/ \E schema \in SharedSchemas : GetSuggestions(schema)

SpecShared == InitShared /\ [][NextShared]_vars

-----------------------------------------------------------------------------
(* Typing the tokens of an open where block, then asking for the context   *)

\* The tokens: two words, two operators, a quoted string, the parentheses and
\* the connectives.
InnerTokens ==
  << N_a, N_b, <<"=">>, <<"!", "=">>, <<Quote, "x", Quote>>,
     <<"(">>, <<")">>, W_and, W_or >>

InnerWords  == {1, 2}
InnerOps    == {3, 4}
InnerQuoted == {5}

\* How many tokens are typed at most.
MaxInnerTokens == 3

RECURSIVE InnerText(_)
\* where:( and the tokens, a space between two tokens.
InnerText(ids) ==
  IF Len(ids) = 0 THEN K_where \o Colon \o <<"(">>
  ELSE InnerText(SubSeq(ids, 1, Len(ids) - 1))
         \o (IF Len(ids) = 1 THEN <<>> ELSE <<" ">>) \o InnerTokens[ids[Len(ids)]]

InitInner ==
  /\ typed = <<>>
  /\ text = InnerText(typed)
  /\ passed = <<>>
  /\ pc = "typing"
  /\ Idle

TypeInnerToken(id) ==
  /\ pc = "typing"
  /\ Len(typed) < MaxInnerTokens
  /\ typed' = Append(typed, id)
  /\ text' = InnerText(typed')
  /\ UNCHANGED <<passed, caret, pc, result, valid, ctxOut, sugOut>>

NextInner ==
  \/ \E id \in 1..Len(InnerTokens) : TypeInnerToken(id)
  \/ GetContextAtEnd

SpecInner == InitInner /\ [][NextInner]_vars

-----------------------------------------------------------------------------
(* Typing clauses with keys in either case, parsing, then asking which     *)
(* keys are used                                                           *)

\* How many clauses are typed at most.
MaxKeyClauses == 2

\* The whole clauses, and clauses whose keys are in capitals or mixed case.
KeyClauses ==
  WholeClauses \o
  << K_WHERE \o Colon \o <<"(", "a", "=", "1", ")">>,      \* WHERE:(a=1)
     K_LIMIT \o Colon \o <<"5">>,                          \* LIMIT:5
     K_ENTITY \o Colon \o <<"U">>,                         \* ENTITY:U
     <<"I", "n", "c", "l", "u", "d", "e">> \o Colon \o N_r, \* Include:r
     K_ORDER \o Colon \o N_a >>                            \* ORDER:a

RECURSIVE KeyText(_)
\* The clauses, joined by single spaces.
KeyText(ids) ==
  IF Len(ids) = 0 THEN <<>>
  ELSE IF Len(ids) = 1 THEN KeyClauses[ids[1]]
  ELSE KeyText(SubSeq(ids, 1, Len(ids) - 1)) \o <<" ">> \o KeyClauses[ids[Len(ids)]]

InitKeys == InitClauses

TypeKeyClause(id) ==
  /\ pc = "typing"
  /\ Len(typed) < MaxKeyClauses
  /\ typed' = Append(typed, id)
  /\ text' = KeyText(typed')
  /\ UNCHANGED <<passed, caret, pc, result, valid, ctxOut, sugOut>>

\* parsePlainText(text)
ParseKeyText == ParsePlainText(<<>>)

\* getContext(text, 0), asked after the parse: at cursor 0 the context is
\* top-level and carries usedKeys whatever the query is.
GetContextAtStart ==
  /\ pc = "parsed"
  /\ caret' = 0
  /\ ctxOut' = getContext(text, 0)
  /\ pc' = "context"
  /\ UNCHANGED <<text, typed, passed, result, valid, sugOut>>

NextKeys ==
  \/ \E id \in 1..Len(KeyClauses) : TypeKeyClause(id)
  \/ ParseKeyText
  \/ GetContextAtStart

SpecKeys == InitKeys /\ [][NextKeys]_vars

-----------------------------------------------------------------------------
(* Properties of parsePlainText and isValidPlainText                       *)

HasParsed == pc \in {"parsed", "validated"}

\* The tree of the text when no schema is passed.
Syntactic == parsePlainText(text, <<>>)

RECURSIVE ComparisonFields(_)
RECURSIVE ComparisonFieldsOfAll(_)
\* The fields of the comparisons of a where tree, from left to right.
ComparisonFields(cond) ==
  IF cond.node = "cmp" THEN <<cond.field>> ELSE ComparisonFieldsOfAll(cond.children)

ComparisonFieldsOfAll(conds) ==
  IF Len(conds) = 0 THEN <<>>
  ELSE ComparisonFields(conds[1]) \o ComparisonFieldsOfAll(Tail(conds))

WhereFields(rql) == IF rql.where = <<>> THEN <<>> ELSE ComparisonFields(rql.where[1])
IncludeOf(rql)   == IF rql.include = <<>> THEN <<>> ELSE rql.include[1]

\* The names a schema defines.
EntityNames(schema) == {schema.entities[k].name : k \in 1..Len(schema.entities)}
RelationsOf(entityDef) ==
  IF entityDef.relations = <<>> THEN {}
  ELSE {entityDef.relations[1][k] : k \in 1..Len(entityDef.relations[1])}
FieldsOf(entityDef) ==
  IF entityDef.fields = <<>> THEN {}
  ELSE {entityDef.fields[1][k].name : k \in 1..Len(entityDef.fields[1])}
SchemaRelations(schema) == UNION {RelationsOf(schema.entities[k]) : k \in 1..Len(schema.entities)}
SchemaFields(schema)    == UNION {FieldsOf(schema.entities[k]) : k \in 1..Len(schema.entities)}
\* The first entity of the schema with this name.
EntityNamed(schema, name) ==
  schema.entities[CHOOSE k \in 1..Len(schema.entities) :
                    /\ schema.entities[k].name = name
                    /\ \A j \in 1..(k - 1) : schema.entities[j].name # name]

\* C3: parsePlainText(text, schema?) either returns a query tree or raises
\* ParseError: no other error kind comes out of it, for a syntactic failure
\* as for a schema-validation failure.
C3_TreeOrParseError == HasParsed => result.kind \in {"ok", "ParseError"}

\* A text that parses without a schema is rejected under the schema.
C3_Witness ==
  /\ pc = "parsed"
  /\ passed # <<>>
  /\ result.kind = "ParseError"
  /\ Syntactic.kind = "ok"

\* C4: isValidPlainText(X, S) returns true exactly when parsePlainText(X, S)
\* returns a tree, false exactly when it raises ParseError, and never throws.
C4_ValidIffParses ==
  pc = "validated" =>
    /\ valid.kind = "ok"
    /\ valid.value \in BOOLEAN
    /\ valid.value = TRUE <=> result.kind = "ok"
    /\ valid.value = FALSE <=> result.kind = "ParseError"

\* isValidPlainText answers false for a text that only the schema rejects.
C4_Witness ==
  /\ pc = "validated"
  /\ passed # <<>>
  /\ valid = Ok(FALSE)
  /\ result.kind = "ParseError"
  /\ Syntactic.kind = "ok"

\* The keys of the clauses typed, one per clause that has a key.
TypedKeys == [k \in 1..Len(typed) |-> Pieces[typed[k]].key]

\* C5: a query in which one of entity, limit, order, include, where is the
\* key of two top-level clauses is rejected by parsePlainText with a
\* ParseError.
C5_DuplicateKeyRejected ==
  (HasParsed /\ \E j, k \in 1..Len(typed) : j < k /\ TypedKeys[j] # "" /\ TypedKeys[j] = TypedKeys[k])
    => result.kind = "ParseError"

\* C8 as stated: under a schema, an accepted tree's entity is an entity of
\* the schema, its include keys are relations defined in the schema and its
\* where fields are fields defined in the schema.
C8_AllNamesDefined ==
  (HasParsed /\ passed # <<>> /\ result.kind = "ok") =>
    LET rql == result.value
        schema == passed[1]
    IN /\ rql.entity # <<>> => rql.entity[1] \in EntityNames(schema)
       /\ \A k \in 1..Len(IncludeOf(rql)) : IncludeOf(rql)[k] \in SchemaRelations(schema)
       /\ \A k \in 1..Len(WhereFields(rql)) : WhereFields(rql)[k] \in SchemaFields(schema)

\* C8, amended: under a schema that has entities, an accepted tree that has
\* an entity names an entity of the schema, each of its include keys is a
\* relation of that entity, and, when that entity declares fields, each
\* comparison field of its where tree is one of them.
C8_NamesDefinedForEntity ==
  (HasParsed /\ passed # <<>> /\ result.kind = "ok") =>
    LET rql == result.value
        schema == passed[1]
    IN (Len(schema.entities) > 0 /\ rql.entity # <<>>) =>
         /\ rql.entity[1] \in EntityNames(schema)
         /\ LET entityDef == EntityNamed(schema, rql.entity[1]) IN
            /\ \A k \in 1..Len(IncludeOf(rql)) : IncludeOf(rql)[k] \in RelationsOf(entityDef)
            /\ entityDef.fields # <<>> =>
                 \A k \in 1..Len(WhereFields(rql)) : WhereFields(rql)[k] \in FieldsOf(entityDef)

\* An accepted tree with an entity, an include list and a where tree, under
\* a schema whose entity declares relations and fields.
C8_Witness ==
  /\ pc = "parsed"
  /\ passed = <<SchemaFull>>
  /\ result.kind = "ok"
  /\ result.value.entity = <<N_u>>
  /\ Len(IncludeOf(result.value)) > 0
  /\ Len(WhereFields(result.value)) > 0

\* The text typed, with the order fields replaced by names no schema knows.
Renamed == TextOf(typed, TRUE)

\* C9: order field names are never checked against the schema: replacing
\* them by names unknown to the schema does not change whether
\* parsePlainText(text, schema) succeeds.
C9_OrderFieldsUnchecked ==
  HasParsed => (parsePlainText(Renamed, passed).kind = "ok" <=> result.kind = "ok")

\* An accepted query under the full schema, with a known entity, whose order
\* field is renamed.
C9_Witness ==
  /\ pc = "parsed"
  /\ passed = <<SchemaFull>>
  /\ result.kind = "ok"
  /\ result.value.entity = <<N_u>>
  /\ result.value.order # <<>>
  /\ Renamed # text
  /\ parsePlainText(Renamed, passed).value.order # result.value.order

RECURSIVE FirstOccurrences(_, _)
\* The members of list outside known, each once, at its first occurrence.
FirstOccurrences(list, known) ==
  IF Len(list) = 0 THEN <<>>
  ELSE IF list[1] \in known THEN FirstOccurrences(Tail(list), known)
  ELSE <<list[1]>> \o FirstOccurrences(Tail(list), known \cup {list[1]})

\* The case of C10: the text parses, the schema has its entity, all include
\* keys are relations of that entity, the entity declares fields and the
\* where tree has a field that is not among them.
C10_Case ==
  /\ HasParsed
  /\ passed # <<>>
  /\ Syntactic.kind = "ok"
  /\ LET rql == Syntactic.value
         schema == passed[1]
     IN /\ rql.entity # <<>>
        /\ rql.entity[1] \in EntityNames(schema)
        /\ LET entityDef == EntityNamed(schema, rql.entity[1]) IN
           /\ \A k \in 1..Len(IncludeOf(rql)) : IncludeOf(rql)[k] \in RelationsOf(entityDef)
           /\ entityDef.fields # <<>>
           /\ \E k \in 1..Len(WhereFields(rql)) : WhereFields(rql)[k] \notin FieldsOf(entityDef)

C10_Unknown ==
  FirstOccurrences(WhereFields(Syntactic.value),
                   FieldsOf(EntityNamed(passed[1], Syntactic.value.entity[1])))

C11_ValidationAfterParse ==
  HasParsed =>
    /\ Syntactic.kind = "ParseError" => result = Syntactic
    /\ result.kind = "ok" => result = Syntactic

\* A text with an include and a where clause passes the validation of the
\* schema's first entity.
C11_Witness ==
  /\ pc = "parsed"
  /\ passed = <<SchemaFull>>
  /\ result.kind = "ok"
  /\ result.value.entity = <<N_u>>
  /\ result.value.include # <<>>
  /\ result.value.where # <<>>

ToUpperChar(c) ==
  IF \E k \in 1..26 : LowerCase[k] = c
    THEN UpperCase[CHOOSE k \in 1..26 : LowerCase[k] = c]
  ELSE c

\* A clause with the letters of its key, the text before its first colon, in
\* capitals.
KeyInCapitals(clause) ==
  [k \in 1..Len(clause) |->
     IF k <= IndexOf(clause, ":") THEN ToUpperChar(clause[k]) ELSE clause[k]]

RECURSIVE InCapitals(_)
\* The text of the pieces, each with its key in capitals, joined by single
\* spaces.
InCapitals(ids) ==
  IF Len(ids) = 0 THEN <<>>
  ELSE IF Len(ids) = 1 THEN KeyInCapitals(Pieces[ids[1]].text)
  ELSE KeyInCapitals(Pieces[ids[1]].text) \o <<" ">> \o InCapitals(Tail(ids))

\* C17: top-level keys are matched case-insensitively: writing the clause
\* keys of a query in capitals does not change the outcome of parsePlainText,
\* also for an order clause with spaces in its value and for a where clause.
C17_KeyCaseIrrelevant ==
  HasParsed => parsePlainText(InCapitals(typed), passed) = result

\* What a caller compares of two outcomes: the tree, or that the call failed.
Outcome(r) == IF r.kind = "ok" THEN r ELSE [kind |-> r.kind]

\* The clauses typed, in each order.
Reorderings ==
  {[k \in 1..Len(typed) |-> typed[p[k]]] : p \in Permutations(1..Len(typed))}

\* Every clause typed has a key, and no two have the same key.
DistinctKeys ==
  /\ \A k \in 1..Len(typed) : TypedKeys[k] # ""
  /\ \A j, k \in 1..Len(typed) : j # k => TypedKeys[j] # TypedKeys[k]

\* C18: the order of the clauses is irrelevant: clauses with pairwise
\* distinct keys, joined by spaces, give the same tree, or fail, in every
\* order, an order clause with spaces in its value and a where:(...) clause
\* included.
C18_ClauseOrderIrrelevant ==
  (HasParsed /\ DistinctKeys) =>
    \A ids \in Reorderings :
      Outcome(parsePlainText(TextOf(ids, FALSE), passed)) = Outcome(result)

\* The value typed after limit:
LimitTyped == [k \in 1..Len(typed) |-> LimitChars[typed[k]]]

\* A minus sign and digits that write a number other than 0, such as -1.
IsNegativeInteger(v) ==
  Len(v) >= 2 /\ v[1] = "-" /\ AllDigits(Tail(v)) /\ DigitsValue(Tail(v)) > 0

\* Neither a digit first nor a sign and a digit, such as x, .5 or -.
NoLeadingInteger(v) ==
  /\ Len(v) >= 1
  /\ ~IsDigit(v[1])
  /\ ~(v[1] \in {"-", "+"} /\ Len(v) >= 2 /\ IsDigit(v[2]))

\* A digit first and something other than a digit later, such as 1.5 or 10x.
DigitsThenMore(v) == Len(v) >= 1 /\ IsDigit(v[1]) /\ ~AllDigits(v)

\* C19: a limit clause is accepted exactly when its value is a non-empty
\* string of decimal digits; the tree's limit is then that integer, which is
\* not negative.  Any other value raises ParseError: 'limit must be
\* non-negative' for a negative integer, 'limit must be a valid integer' for
\* a value with no leading integer, 'limit must be an integer without
\* decimals' for digits followed by anything else.
C19_LimitDigitsOnly ==
  pc = "parsed" =>
    IF Len(LimitTyped) >= 1 /\ AllDigits(LimitTyped)
      THEN /\ result = Ok([EmptyQuery EXCEPT !.limit = <<DigitsValue(LimitTyped)>>])
           /\ result.value.limit[1] >= 0
    ELSE /\ result.kind = "ParseError"
         /\ IsNegativeInteger(LimitTyped)
              => result.message = <<"limit must be non-negative">>
         /\ NoLeadingInteger(LimitTyped)
              => result.message = <<"limit must be a valid integer">>
         /\ DigitsThenMore(LimitTyped)
              => result.message = <<"limit must be an integer without decimals">>

\* limit:10x is rejected although it starts with the integer 10.
C19_Witness ==
  /\ pc = "parsed"
  /\ LimitTyped = <<"1", "0", "x">>
  /\ result = ParseError(<<"limit must be an integer without decimals">>)

RECURSIVE TermsTyped(_, _)
\* The terms typed after order: the words between the commas; term is the
\* term being collected.
TermsTyped(ids, term) ==
  IF Len(ids) = 0 THEN <<term>>
  ELSE IF IsComma(ids[1]) THEN <<term>> \o TermsTyped(Tail(ids), <<>>)
  ELSE TermsTyped(Tail(ids), Append(term, OrderTokens[ids[1]]))

IsDirection(word) == ToLower(word) \in {W_asc, W_desc}

\* One or two words: a field that is no direction, then perhaps a direction.
TermWellFormed(term) ==
  /\ Len(term) \in {1, 2}
  /\ ~IsDirection(term[1])
  /\ Len(term) = 2 => IsDirection(term[2])

OrderWellFormed ==
  \A k \in 1..Len(TermsTyped(typed, <<>>)) : TermWellFormed(TermsTyped(typed, <<>>)[k])

\* The order of the tree for well-formed terms.
OrderExpected ==
  [k \in 1..Len(TermsTyped(typed, <<>>)) |->
     LET term == TermsTyped(typed, <<>>)[k] IN
     OrderTerm(term[1], IF Len(term) = 2 /\ ToLower(term[2]) = W_desc THEN "desc" ELSE "asc")]

\* C20: an order clause is accepted exactly when every comma-separated term
\* is one or two words, the first no direction and the second, if present,
\* asc or desc in any letter case; any other clause, a term with words after
\* the direction included, raises ParseError.  The accepted tree lists the
\* terms in source order, dir in lower case and asc when left out.
C20_OrderTermsChecked ==
  pc = "parsed" =>
    /\ result.kind \in {"ok", "ParseError"}
    /\ result.kind = "ok" <=> OrderWellFormed
    /\ result.kind = "ok" => result.value = [EmptyQuery EXCEPT !.order = <<OrderExpected>>]

-----------------------------------------------------------------------------
(* Properties of the where tree                                            *)

RECURSIVE Flattened(_)
\* No and directly under an and, no or directly under an or, and at least
\* two children under each of them, at every depth.
Flattened(cond) ==
  cond.node = "cmp" \/
    /\ Len(cond.children) >= 2
    /\ \A k \in 1..Len(cond.children) :
         /\ cond.children[k].node # cond.node
         /\ Flattened(cond.children[k])

\* The fields of the comparisons typed, in the order typed.
TypedFields == [k \in 1..CountOf(typed, "cmp") |-> ComparisonField(k)]

\* C6: in a where tree returned by parsePlainText no and node has an and
\* child, no or node has an or child, every and / or node has at least two
\* children, and the comparisons are in the order of the source text.
C6_WhereTreeFlattened ==
  (HasParsed /\ result.kind = "ok" /\ result.value.where # <<>>) =>
    /\ Flattened(result.value.where[1])
    /\ ComparisonFields(result.value.where[1]) = TypedFields

\* A parenthesised or group next to an or: one or node of three comparisons.
C6_Witness ==
  /\ HasParsed
  /\ result.kind = "ok"
  /\ result.value.where # <<>>
  /\ typed = <<"(", "cmp", "or", "cmp", ")", "or", "cmp">>
  /\ result.value.where[1].node = "or"
  /\ Len(result.value.where[1].children) = 3

\* The tokens typed are comparisons without parentheses, two neighbours
\* joined by OR, by and, or by nothing.
Unparenthesised ==
  /\ Len(typed) > 0
  /\ typed[1] = "cmp"
  /\ typed[Len(typed)] = "cmp"
  /\ \A k \in 1..Len(typed) : typed[k] \in {"cmp", "or", "and"}
  /\ \A k \in 1..(Len(typed) - 1) : typed[k] \in {"or", "and"} => typed[k + 1] = "cmp"

\* The comparison that the k-th comparison typed stands for.
ComparisonNode(k) ==
  Comparison(ComparisonField(k), ComparisonOp(k), Value("number", ComparisonValue(k)))

RECURSIVE AndRuns(_, _, _, _)
\* The maximal runs of comparisons between the ORs of the tokens from the
\* k-th on: n comparisons are before it, and run is the run so far.
AndRuns(tokens, k, n, run) ==
  IF k > Len(tokens) THEN <<run>>
  ELSE IF tokens[k] = "or" THEN <<run>> \o AndRuns(tokens, k + 1, n, <<>>)
  ELSE IF tokens[k] = "cmp" THEN AndRuns(tokens, k + 1, n + 1, Append(run, ComparisonNode(n + 1)))
  ELSE AndRuns(tokens, k + 1, n, run)

RunNode(run) == IF Len(run) = 1 THEN run[1] ELSE Logical("and", run)

\* C7: AND binds tighter than OR: comparisons joined by OR and by AND (the
\* keyword or adjacency), without parentheses and with at least one OR, give
\* an or node whose children are, in order, the maximal AND runs between the
\* ORs, each a single comparison or one and node.
C7_AndBindsTighter ==
  (HasParsed /\ Unparenthesised /\ CountOf(typed, "or") > 0) =>
    LET runs == AndRuns(typed, 1, 0, <<>>) IN
    /\ result.kind = "ok"
    /\ result.value.where = <<Logical("or", [k \in 1..Len(runs) |-> RunNode(runs[k])])>>

\* An OR followed by an AND run of comparisons.
C7_Witness ==
  /\ HasParsed
  /\ Unparenthesised
  /\ result.kind = "ok"
  /\ typed = <<"cmp", "or", "cmp", "and", "cmp">>
  /\ result.value.where[1].children[2].node = "and"

\* The tree of where:(a=VALUE) for a value of this type.
TreeOfValue(type, v) ==
  Ok([EmptyQuery EXCEPT !.where = <<Comparison(N_a, <<"=">>, Value(type, v))>>])

\* The digit pieces.
DigitPieces == {1, 2}

\* Pieces that write digits only, at least one.
DigitsTyped(ids) == Len(ids) >= 1 /\ \A k \in 1..Len(ids) : ids[k] \in DigitPieces

\* -?digits(.digits)? in pieces: an optional minus sign, digits, and perhaps
\* a point and digits.
NumberTyped(ids) ==
  LET body == IF Len(ids) >= 1 /\ ids[1] = 3 THEN Tail(ids) ELSE ids IN
  \/ DigitsTyped(body)
  \/ \E k \in 1..Len(body) :
       /\ body[k] = 4
       /\ DigitsTyped(SubSeq(body, 1, k - 1))
       /\ DigitsTyped(SubSeq(body, k + 1, Len(body)))

\* What the lexical form of the value says its type is.
TypeTyped(ids) ==
  IF IsQuoted(ids) THEN "string"
  ELSE IF NumberTyped(ids) THEN "number"
  ELSE IF ToLower(ValueTyped(ids)) \in {W_true, W_false} THEN "boolean"
  ELSE "string"

\* The value of that type: a number by its canonical writing, a boolean by
\* its name, a string verbatim.
ValueExpected(ids) ==
  IF TypeTyped(ids) = "number" THEN NumberOf(ValueTyped(ids))
  ELSE IF TypeTyped(ids) = "boolean" THEN ToLower(ValueTyped(ids))
  ELSE ValueTyped(ids)

\* A value was typed: any quoted text, or unquoted text that is not empty.
ValueCase == pc = "parsed" /\ (IsQuoted(typed) \/ Len(typed) >= 1)

\* The unquoted words and / or in any letter case.
IsConnective(ids) == ~IsQuoted(ids) /\ ToLower(ValueTyped(ids)) \in {W_and, W_or}

\* C21 as stated: where values are typed by their lexical form: a quoted
\* value is a string, an unquoted -?digits(.digits)? a number, an unquoted
\* true / false in any letter case a boolean, every other unquoted value the
\* string itself.
C21_ValuesTypedByForm ==
  ValueCase => result = TreeOfValue(TypeTyped(typed), ValueExpected(typed))

\* C21: the same for every value other than the unquoted words and / or in
\* any letter case, which are the keywords of the where grammar.
C21_ValuesTypedButKeywords ==
  (ValueCase /\ ~IsConnective(typed))
    => result = TreeOfValue(TypeTyped(typed), ValueExpected(typed))

\* The unquoted FALSE is the boolean false.
C21_Witness ==
  /\ pc = "parsed"
  /\ typed = <<6>>
  /\ result = TreeOfValue("boolean", W_false)

\* C22: parentheses inside a double-quoted string do not count toward the
\* balance of parentheses: for every quoted value v with ( or ) in it,
\* where:(a="v") is split as one clause, unwrapped and parsed to the
\* comparison of a with the string v.
C22_QuotedParenthesesIgnored ==
  (pc = "parsed" /\ \E k \in 1..Len(typed) : QuotedChars[typed[k]] \in {"(", ")"})
    => result = TreeOfValue("string", QuotedTyped(typed))

-----------------------------------------------------------------------------
(* Properties of the completion calls                                      *)

C2_PipelineProducesValue ==
  /\ pc \in {"context", "suggested"} => ctxOut.kind = "ok"
  /\ pc \in {"suggested", "suggestedAtCursor"} => sugOut.kind = "ok"

\* The suggestions of the last getSuggestions call, and the context they
\* were asked for.
Suggested == pc = "suggested"
Suggestions == sugOut.value
TheContext == ctxOut.value

\* The label starts with the partial, letter case aside.
HasPrefix(label, partial) == StartsWith(ToLower(label), ToLower(partial))

\* C12 as stated: every suggestion returned by getSuggestions has a label
\* that starts, compared case-insensitively, with the context's partial.
C12_PrefixFilterLaw ==
  Suggested =>
    \A k \in 1..Len(Suggestions) : HasPrefix(Suggestions[k].label, TheContext.partial)

\* C12: every suggestion returned by getSuggestions that replaces the partial
\* (replacePartial is not false) has a label that starts, compared
\* case-insensitively, with the context's partial.
C12_PrefixOfReplacing ==
  Suggested =>
    \A k \in 1..Len(Suggestions) :
      Suggestions[k].replacePartial # "false"
        => HasPrefix(Suggestions[k].label, TheContext.partial)

\* The field a is suggested for the partial A.
C12_Witness ==
  /\ Suggested
  /\ TheContext.kind = "where-field"
  /\ TheContext.partial = <<"A">>
  /\ \E k \in 1..Len(Suggestions) : Suggestions[k].label = N_a

\* C13: a suggestion whose replacePartial is false has replaceLength 0; any
\* other suggestion (replacePartial absent or true) has the length of the
\* context's partial as its replaceLength.
C13_ReplaceLength ==
  Suggested =>
    \A k \in 1..Len(Suggestions) :
      Suggestions[k].replaceLength =
        IF Suggestions[k].replacePartial = "false" THEN 0 ELSE Len(TheContext.partial)

\* The operators are offered after the field a, to be inserted at the cursor.
C13_Witness ==
  /\ Suggested
  /\ Len(TheContext.partial) = 1
  /\ Len(Suggestions) = Len(WHERE_OPS)
  /\ \A k \in 1..Len(Suggestions) :
       Suggestions[k].replacePartial = "false" /\ Suggestions[k].replaceLength = 0

\* C14: the partial of getContext(query, c) is the text that ends at the
\* clamped cursor, query[c - |partial| .. c] = partial, so that replacing
\* replaceLength = |partial| characters before the cursor replaces the
\* partial and nothing else.
C14_PartialEndsAtCursor ==
  (pc = "context" /\ ctxOut.kind = "ok") =>
    LET c == SafeCursor(text, caret)
        p == TheContext.partial
    IN /\ Len(p) <= c
       /\ Slice(text, c - Len(p), c) = p

\* C15: the cursor is clamped into the query: getContext(q, c) is
\* getContext(q, 0) for every c < 0 and getContext(q, |q|) for every c > |q|.
C15_CursorClamped ==
  pc = "context" =>
    /\ caret < 0 => ctxOut = getContext(text, 0)
    /\ caret > Len(text) => ctxOut = getContext(text, Len(text))

\* A cursor before the start of a query whose context at its end is not the
\* context at its start.
C15_Witness ==
  /\ pc = "context"
  /\ caret < 0
  /\ ctxOut.kind = "ok"
  /\ ctxOut # getContext(text, Len(text))

\* The key of a chunk that is a whole clause followed by a space, in lower
\* case; <<>> for any other chunk.
ClauseChunkKey(id) ==
  IF id = 1 THEN K_entity ELSE IF id = 10 THEN K_where ELSE <<>>

\* The chunks that are a bare word.
WordChunks == {4, 9}

\* The text is whole clauses, each followed by a space, and perhaps a word
\* being typed after them.
C16_Case ==
  \A k \in 1..Len(typed) :
    \/ ClauseChunkKey(typed[k]) # <<>>
    \/ k = Len(typed) /\ typed[k] \in WordChunks

\* The keys of the clauses of the text.
C16_ClauseKeys == {ClauseChunkKey(typed[k]) : k \in 1..Len(typed)} \ {<<>>}

\* The key an entry of TOP_LEVEL_KEYS stands for.
KeyNameOf(entry) == SelectSeq(entry, LAMBDA c : c \notin {":", "("})

\* C16: in a top-level context, usedKeys lists without repetition every
\* recognized top-level key that is the key of a clause of the query, before
\* or after the cursor, and getSuggestions returns, in the order entity:,
\* limit:, order:, include:, where:(, exactly the entries whose key is not
\* used and matches the partial.
C16_UsedKeysNotOffered ==
  (pc \in {"context", "suggested"} /\ ctxOut.kind = "ok"
     /\ TheContext.kind = "top-level" /\ C16_Case) =>
    /\ \A j, k \in 1..Len(TheContext.usedKeys) :
         j # k => TheContext.usedKeys[j] # TheContext.usedKeys[k]
    /\ {TheContext.usedKeys[k] : k \in 1..Len(TheContext.usedKeys)} = C16_ClauseKeys
    /\ Suggested =>
         [k \in 1..Len(Suggestions) |-> Suggestions[k].label]
           = SelectSeq(TOP_LEVEL_KEYS,
                       LAMBDA entry : /\ KeyNameOf(entry) \notin C16_ClauseKeys
                                      /\ HasPrefix(KeyNameOf(entry), TheContext.partial))

\* The text ends with a completed where:(...) block, with letters and = in
\* it and at most entity:u in front of it, and the cursor sits right after
\* its closing parenthesis.
C23_Case ==
  /\ pc = "context"
  /\ caret = Len(text)
  /\ \E k \in 1..(Len(typed) - 1) :
       /\ typed[k] = 2
       /\ typed[Len(typed)] = 8
       /\ \A j \in 1..(k - 1) : typed[j] = 1
       /\ \A j \in (k + 1)..(Len(typed) - 1) : typed[j] \in {4, 6, 9}

ClauseAtCursor ==
  WholeClauses[typed[CHOOSE k \in 1..Len(typed) : EndOfClause(typed, k) = caret]]

\* The context at the end of that clause when it is the whole query.
ContextAlone == getContext(ClauseAtCursor, Len(ClauseAtCursor))

\* C24: the context is decided by the clause that contains the cursor,
\* whatever clauses precede it: with the cursor at the end of a clause of a
\* query of well-formed clauses, the kind and the partial of getContext are
\* those of that clause alone, also when a completed where:(...) block comes
\* first and two or more clauses follow it.
C24_ContextOfClauseAtCursor ==
  pc = "context" =>
    /\ ctxOut.kind = "ok"
    /\ TheContext.kind = ContextAlone.value.kind
    /\ TheContext.partial = ContextAlone.value.partial

\* The cursor is at the end of the input and the last character is whitespace.
C25_Case ==
  /\ pc = "context"
  /\ caret = Len(text)
  /\ Len(text) > 0
  /\ text[Len(text)] \in WhiteSpace

\* C25: if the cursor is at end-of-input and the last character of the query
\* is whitespace, getContext returns a top-level context with partial ''.
C25_TrailingSpaceIsTopLevel ==
  C25_Case =>
    /\ ctxOut.kind = "ok"
    /\ TheContext.kind = "top-level"
    /\ TheContext.partial = <<>>

\* The labels of a suggestion list, in order.
Labels(suggestions) == [k \in 1..Len(suggestions) |-> suggestions[k].label]

\* No element of the list occurs twice.
NoneTwice(list) == \A i, j \in 1..Len(list) : list[i] = list[j] => i = j

\* The elements of the list, each where it first appears.
FirstAppearances(list) ==
  LET first == {i \in 1..Len(list) : \A j \in 1..(i - 1) : list[j] # list[i]}
      RECURSIVE From(_)
      From(i) == IF i > Len(list) THEN <<>>
                 ELSE (IF i \in first THEN <<list[i]>> ELSE <<>>) \o From(i + 1)
  IN From(1)

\* The relevant entities: all when entityValue is empty, otherwise those whose
\* name equals or starts with entityValue, case-insensitively.
Relevant(schema, entityValue) ==
  SelectSeq(schema.entities,
            LAMBDA e : entityValue = <<>> \/ HasPrefix(e.name, entityValue))

RECURSIVE Candidates(_, _)
\* The relations, the fields or the values of a field that the entities
\* define, entity by entity.
Candidates(entities, context) ==
  IF Len(entities) = 0 THEN <<>>
  ELSE (IF context.kind = "include-value"
          THEN (IF entities[1].relations = <<>> THEN <<>> ELSE entities[1].relations[1])
        ELSE IF context.kind = "where-value"
          THEN ValuesOf(entities[1], context.field)
        ELSE IF entities[1].fields = <<>> THEN <<>> ELSE Names(entities[1].fields[1]))
       \o Candidates(Tail(entities), context)

\* The candidates that the partial lets through.
CandidatesMatching(schema, context) ==
  SelectSeq(Candidates(Relevant(schema, context.entityValue), context),
            LAMBDA name : HasPrefix(name, context.partial))

\* A context whose candidates come from the schema, the where-field context
\* whose partial is a field name aside.
C26_Case ==
  /\ Suggested
  /\ TheContext.kind \in {"include-value", "order-value", "where-field", "where-value"}
  /\ ~(/\ TheContext.kind = "where-field"
       /\ TheContext.partial # <<>>
       /\ Has(CandidatesMatching(passed[1], TheContext), TheContext.partial))

\* The labels are the matching candidates of the relevant entities, ordered by
\* first appearance (in an order-value context after a field, followed by the
\* directions).
C26_FirstAppearanceOrder ==
  C26_Case =>
    Labels(Suggestions) =
      FirstAppearances(CandidatesMatching(passed[1], TheContext))
        \o (IF TheContext.kind = "order-value" /\ TheContext.afterField = "true"
            THEN <<W_asc, W_desc>> ELSE <<>>)

\* C26: suggestion lists are duplicate-free: in include-value, order-value,
\* where-field and where-value contexts the candidates are drawn from the
\* relevant entities, ordered by first appearance, and no label occurs twice
\* even when several relevant entities define the same relation, field or
\* value.
C26_NoLabelTwice ==
  C26_Case => NoneTwice(Labels(Suggestions))

\* The field names that the relevant entities define.
RelevantFieldNames(schema, entityValue) ==
  LET entities == Relevant(schema, entityValue) IN
  UNION {{entities[k].fields[1][n].name : n \in 1..Len(entities[k].fields[1])} :
           k \in {e \in 1..Len(entities) : entities[e].fields # <<>>}}

\* A where-field context for which suggestions were asked.
C27_Case == Suggested /\ TheContext.kind = "where-field"

\* The partial is, letter for letter, a field name of a relevant entity.
C27_ExactField ==
  /\ TheContext.partial # <<>>
  /\ TheContext.partial \in RelevantFieldNames(passed[1], TheContext.entityValue)

\* The six operators, none of them replacing the partial.
C27_Operators ==
  [k \in 1..6 |->
     [label |-> << <<"!", "=">>, <<"<", "=">>, <<">", "=">>, <<"=">>, <<"<">>, <<">">> >>[k],
      insertText |-> << <<"!", "=">>, <<"<", "=">>, <<">", "=">>, <<"=">>, <<"<">>, <<">">> >>[k],
      replacePartial |-> "false",
      replaceLength |-> 0]]

\* C27: in a where-field context, if the partial is non-empty and equals
\* (case-sensitively) a field name of a relevant entity, getSuggestions returns
\* exactly the six operators !=, <=, >=, =, <, > and no field name, each with
\* replacePartial = false and replaceLength = 0; otherwise it returns only
\* field names.
C27_ExactMatchOverride ==
  C27_Case =>
    IF C27_ExactField THEN Suggestions = C27_Operators
    ELSE \A k \in 1..Len(Suggestions) :
           Suggestions[k].label \in RelevantFieldNames(passed[1], TheContext.entityValue)

\* The operators were returned for a field name typed in full.
C27_Witness == C27_Case /\ C27_ExactField /\ Len(Suggestions) = 6

\* Field names were returned for a partial that differs from one in case only.
C27_WitnessOtherwise ==
  /\ C27_Case
  /\ ~C27_ExactField
  /\ TheContext.partial # <<>>
  /\ Len(Suggestions) > 0

\* The text of a typed token: of a quoted string, what is between the quotes.
InnerTokenText(id) ==
  IF id \in InnerQuoted THEN SubSeq(InnerTokens[id], 2, Len(InnerTokens[id]) - 1)
  ELSE InnerTokens[id]

\* The where block is still open: no closing parenthesis closes where:( itself.
InnerOpen ==
  \A n \in 1..Len(typed) :
    Cardinality({k \in 1..n : typed[k] = 7}) <= Cardinality({k \in 1..n : typed[k] = 6})

\* The context was asked for at the end of an open where block.
C28_Case == pc = "context" /\ caret = Len(text) /\ InnerOpen

\* The last token is an operator.
LastIsOperator == Len(typed) >= 1 /\ typed[Len(typed)] \in InnerOps

\* The last token is a word or a quoted string that an operator precedes.
LastIsOperand ==
  /\ Len(typed) >= 2
  /\ typed[Len(typed)] \in InnerWords \cup InnerQuoted
  /\ typed[Len(typed) - 1] \in InnerOps

\* C28: inside a where:( segment, getContext returns where-value exactly when
\* the last token before the cursor is an operator (partial '', field = the
\* previous token), or is an unquoted word or a quoted string immediately
\* preceded by an operator (partial = that token's text, field = the token
\* before the operator); in every other case it returns where-field.
C28_WhereValueAfterOperator ==
  C28_Case =>
    /\ ctxOut.kind = "ok"
    /\ IF LastIsOperator
         THEN /\ TheContext.kind = "where-value"
              /\ TheContext.partial = <<>>
              /\ Len(typed) >= 2 =>
                   TheContext.field = InnerTokenText(typed[Len(typed) - 1])
       ELSE IF LastIsOperand
         THEN /\ TheContext.kind = "where-value"
              /\ TheContext.partial = InnerTokenText(typed[Len(typed)])
              /\ Len(typed) >= 3 =>
                   TheContext.field = InnerTokenText(typed[Len(typed) - 2])
       ELSE TheContext.kind = "where-field"

\* The name of a top-level key as usedKeys holds it.
KeyName(key) ==
  [entity |-> K_entity, limit |-> K_limit, order |-> K_order,
   include |-> K_include, where |-> K_where][key]

\* The top-level fields present in a parsed tree.
FieldsPresent(query) ==
  {KeyName(key) : key \in {k \in {"entity", "limit", "order", "include", "where"} : In(k, query)}}

\* C29: the autocompleter and the parser agree on which keys a query uses:
\* for every query that parsePlainText accepts, the set usedKeys computed by
\* getContext equals the set of top-level fields present in the parsed tree,
\* also for keys written in upper or mixed case.
C29_UsedKeysAreParsedFields ==
  (pc = "context" /\ result.kind = "ok" /\ ctxOut.kind = "ok") =>
    {TheContext.usedKeys[k] : k \in 1..Len(TheContext.usedKeys)} = FieldsPresent(result.value)

\* getContext for the text before the cursor alone, the cursor at its end.
ContextOfPrefix ==
  getContext(Slice(text, 0, SafeCursor(text, caret)), SafeCursor(text, caret))

\* C30: the context kind and partial at a cursor depend only on the text
\* before the cursor: for every query q and cursor c in [0, |q|],
\* getContext(q, c) and getContext(q[0..c], c) have the same kind and the same
\* partial.
C30_ContextFromTextBeforeCursor ==
  (pc = "context" /\ caret \in 0..Len(text)) =>
    /\ ctxOut.kind = ContextOfPrefix.kind
    /\ ctxOut.kind = "ok" =>
         /\ TheContext.kind = ContextOfPrefix.value.kind
         /\ TheContext.partial = ContextOfPrefix.value.partial

=============================================================================
